---- MODULE Spec2Model ----
(***************************************************************************)
(* A model of the cargomax / senashipping loading-condition planner.       *)
(*                                                                         *)
(*   SpecFile    the JSON condition file service                           *)
(*               (senashipping_app/services/file_service.py)               *)
(*   SpecEngine  the stability / criteria / validation / alarm stages      *)
(*   SpecEditor  the condition editor's Compute handler                    *)
(*               (cargomax_app/views/condition_editor_view.py)             *)
(*                                                                         *)
(* Each specification drives its own variables and leaves the others at    *)
(* their initial values.                                                   *)
(***************************************************************************)
EXTENDS Integers, Sequences, FiniteSets, TLC

VARIABLES
    \* ---- file service ----
    fs_cond,      \* the LoadingCondition object handed to save_condition_to_file
    fs_file,      \* the file at filepath: [exists, data, intact]
    fs_written,   \* the condition the last save_condition_to_file wrote
    fs_loaded,    \* what load_condition_from_file last returned: [valid, c, from_save]
    \* ---- engine: one computation, stage by stage ----
    eng_in,         \* the request
    eng_pc,         \* the stage to run next
    eng_stab,       \* compute_stability's result
    eng_criteria,   \* evaluate's CriteriaReport
    eng_validation, \* the ValidationResult being built
    eng_alarms,     \* build_alarm_rows' rows
    eng_result,     \* the assembled ConditionResults
    \* ---- condition editor ----
    ed_ships,        \* self._ships
    ed_ship,         \* self._current_ship (its id, 0 for None)
    ed_voyage,       \* self._current_voyage (its id, 0 for None)
    ed_condition,    \* self._current_condition
    ed_name,         \* the condition name edit
    ed_tank_table,   \* rows of the tank table: [id, cell]
    ed_pen_table,    \* rows of the pen table: [id, cell]
    ed_save_enabled, \* the Save Condition button
    ed_outcome,      \* how the last run of _on_compute ended
    ed_events,       \* the signal and message boxes of that run, in order
    ed_emitted,      \* the condition_computed payloads of that run
    ed_voyages,      \* self._voyages (voyage ids)
    ed_conditions,   \* self._conditions (the stored conditions listed)
    ed_cond_items,   \* the number of items of the condition combo box
    \* ---- the database the editor reads and writes ----
    db_tanks,        \* the ids of the tanks stored
    db_pens,         \* the ids of the pens stored
    db_conditions,   \* the stored conditions, by id
    \* ---- one whole computation: aggregate, interpolate, calculate ----
    cp_req,          \* the request: ship, tanks, volumes, pens, head counts
    cp_pc,           \* the stage to run next
    cp_agg,          \* aggregate's result
    cp_hyd,          \* interpolate's result
    cp_outcome,      \* what the caller got: a result, or the error raised
    \* ---- results view ----
    rv_last,         \* self._last_results, _last_ship, _last_condition, _last_voyage
    rv_call,         \* the arguments of the most recent update_results call
    rv_status,       \* the status label's text
    rv_gm,           \* the GM field's text
    rv_events,       \* the message boxes of the last export handler run
    rv_exported,     \* the export function calls of that run
    \* ---- tank and pen repositories ----
    rp_tanks,        \* the rows of table "tanks", by id
    rp_pens,         \* the rows of table "livestock_pens", by id
    rp_outcome       \* how the last repository call ended

fsVars == <<fs_cond, fs_file, fs_written, fs_loaded>>
engVars == <<eng_in, eng_pc, eng_stab, eng_criteria, eng_validation,
             eng_alarms, eng_result>>
cpVars == <<cp_req, cp_pc, cp_agg, cp_hyd, cp_outcome>>
dbVars == <<db_tanks, db_pens, db_conditions>>
rvVars == <<rv_last, rv_call, rv_status, rv_gm, rv_events, rv_exported>>
rpVars == <<rp_tanks, rp_pens, rp_outcome>>
edVars == <<ed_ships, ed_ship, ed_voyage, ed_condition, ed_name,
            ed_tank_table, ed_pen_table, ed_save_enabled, ed_outcome,
            ed_events, ed_emitted, ed_voyages, ed_conditions, ed_cond_items,
            dbVars>>

----------------------------------------------------------------------------
(* Bounds of the file-service inputs.                                      *)
MaxTankId == 2
MaxPenId == 1

----------------------------------------------------------------------------
(***************************************************************************)
(* Python values and JSON values.  A scalar is a record [t, x, s]: t the   *)
(* type tag, x the number (floats in thousandths), s the string.           *)
(***************************************************************************)
PyNone == [t |-> "none", x |-> 0, s |-> ""]
PyInt(i) == [t |-> "int", x |-> i, s |-> ""]
PyFloat(m) == [t |-> "float", x |-> m, s |-> ""]
PyStr(str) == [t |-> "str", x |-> 0, s |-> str]

JNull == [t |-> "null", x |-> 0, s |-> ""]

(* A dict key: Python keeps int keys and str keys apart (1 /= "1").        *)
IntKey(i) == [kt |-> "int", ki |-> i, ks |-> ""]
StrKey(str) == [kt |-> "str", ki |-> 0, ks |-> str]

EmptyDict == [k \in {} |-> PyNone]

(* json.dump of a scalar: None -> null, int -> integer literal, float ->   *)
(* literal with a fraction (repr), str -> string.                          *)
ToJson(v) ==
    CASE v.t = "none" -> JNull
      [] v.t = "int" -> [t |-> "integer", x |-> v.x, s |-> ""]
      [] v.t = "float" -> [t |-> "real", x |-> v.x, s |-> ""]
      [] v.t = "str" -> [t |-> "string", x |-> 0, s |-> v.s]

(* json.load of a scalar.                                                  *)
FromJson(j) ==
    CASE j.t = "null" -> PyNone
      [] j.t = "integer" -> PyInt(j.x)
      [] j.t = "real" -> PyFloat(j.x)
      [] j.t = "string" -> PyStr(j.s)

(* json.dump of a dict key: a JSON object's keys are strings, an int key   *)
(* is written as str(key).                                                 *)
JsonKey(k) == IF k.kt = "int" THEN ToString(k.ki) ELSE k.ks

(* json.dump of a dict: a JSON object, a function from strings.            *)
DumpDict(d) ==
    [str \in {JsonKey(k) : k \in DOMAIN d} |->
        ToJson(d[CHOOSE k \in DOMAIN d : JsonKey(k) = str])]

(* json.load of a JSON object: a dict with str keys.                       *)
LoadDict(jd) ==
    [k \in {StrKey(str) : str \in DOMAIN jd} |-> FromJson(jd[k.ks])]

(* pen_loadings: getattr(condition, "pen_loadings", {}) or {}              *)
OrEmpty(d) == IF DOMAIN d = {} THEN EmptyDict ELSE d

FieldNames ==
    {"name", "voyage_id", "tank_volumes_m3", "pen_loadings",
     "displacement_t", "draft_m", "trim_m", "gm_m"}

(* save_condition_to_file: the object json.dump writes.                    *)
SaveConditionToFile(c) ==
    [f \in FieldNames |->
        CASE f = "name" -> ToJson(c.name)
          [] f = "voyage_id" -> ToJson(c.voyage_id)
          [] f = "tank_volumes_m3" -> DumpDict(c.tank_volumes_m3)
          [] f = "pen_loadings" -> DumpDict(OrEmpty(c.pen_loadings))
          [] f = "displacement_t" -> ToJson(c.displacement_t)
          [] f = "draft_m" -> ToJson(c.draft_m)
          [] f = "trim_m" -> ToJson(c.trim_m)
          [] f = "gm_m" -> ToJson(c.gm_m)]

(* data.get(key, default) on the loaded JSON object, for a scalar field.   *)
JsonGet(data, key, default) ==
    IF key \in DOMAIN data THEN FromJson(data[key]) ELSE default

(* data.get(key, {}) for a dict field.                                     *)
JsonGetDict(data, key) ==
    IF key \in DOMAIN data THEN LoadDict(data[key]) ELSE EmptyDict

(* load_condition_from_file with "gm_m" read under a misspelt key.          *)
LoadConditionWrongKey(data) ==
    [id |-> PyNone,
     voyage_id |-> JsonGet(data, "voyage_id", PyNone),
     name |-> JsonGet(data, "name", PyStr("Loaded Condition")),
     tank_volumes_m3 |-> JsonGetDict(data, "tank_volumes_m3"),
     pen_loadings |-> JsonGetDict(data, "pen_loadings"),
     displacement_t |-> JsonGet(data, "displacement_t", PyFloat(0)),
     draft_m |-> JsonGet(data, "draft_m", PyFloat(0)),
     trim_m |-> JsonGet(data, "trim_m", PyFloat(0)),
     gm_m |-> JsonGet(data, "gm", PyFloat(0))]

(* load_condition_from_file: the LoadingCondition built from the object.   *)
LoadConditionFromFile(data) ==
    [id |-> PyNone,
     voyage_id |-> JsonGet(data, "voyage_id", PyNone),
     name |-> JsonGet(data, "name", PyStr("Loaded Condition")),
     tank_volumes_m3 |-> JsonGetDict(data, "tank_volumes_m3"),
     pen_loadings |-> JsonGetDict(data, "pen_loadings"),
     displacement_t |-> JsonGet(data, "displacement_t", PyFloat(0)),
     draft_m |-> JsonGet(data, "draft_m", PyFloat(0)),
     trim_m |-> JsonGet(data, "trim_m", PyFloat(0)),
     gm_m |-> JsonGet(data, "gm_m", PyFloat(0))]

----------------------------------------------------------------------------
(* The LoadingCondition objects a caller may hand to the file service:     *)
(* maps keyed by integer ids, as the condition editor builds them.         *)
TankVolumeValues == {PyFloat(0), PyFloat(12500)}
PenHeadValues == {PyInt(3)}

IntKeyedDicts(maxId, vals) ==
    UNION {[{IntKey(i) : i \in ids} -> vals] : ids \in SUBSET (1..maxId)}

InputConditions ==
    [id : {PyInt(4)},
     voyage_id : {PyNone, PyInt(7)},
     name : {PyStr("Departure")},
     tank_volumes_m3 : IntKeyedDicts(MaxTankId, TankVolumeValues),
     pen_loadings : IntKeyedDicts(MaxPenId, PenHeadValues),
     displacement_t : {PyFloat(0), PyFloat(5000500)},
     draft_m : {PyFloat(0)},
     trim_m : {PyFloat(-250)},
     gm_m : {PyFloat(1200)}]


----------------------------------------------------------------------------
(***************************************************************************)
(* Numbers of the engine.  A float is held exactly as u + n * 1e-9 with    *)
(* 0 <= n < Nano, so that EPS = 1e-9 is one unit of the low part and a     *)
(* limit such as 60.0 still fits.                                          *)
(***************************************************************************)
Nano == 1000000000

Num(u, n) == [u |-> u, n |-> n]

NumNorm(u, n) ==
    IF n < 0 THEN Num(u - 1, n + Nano)
    ELSE IF n >= Nano THEN Num(u + 1, n - Nano)
    ELSE Num(u, n)

NumZero == Num(0, 0)
NumAdd(a, b) == NumNorm(a.u + b.u, a.n + b.n)
NumSub(a, b) == NumNorm(a.u - b.u, a.n - b.n)
NumLe(a, b) == a.u < b.u \/ (a.u = b.u /\ a.n <= b.n)
NumLt(a, b) == ~NumLe(b, a)
NumNeg(a) == NumSub(NumZero, a)
NumAbs(a) == IF NumLt(a, NumZero) THEN NumNeg(a) ELSE a

RECURSIVE NumTimes(_, _)
NumTimes(k, a) == IF k = 0 THEN NumZero ELSE NumAdd(a, NumTimes(k - 1, a))

(* Limits with a wrong value: the livestock GM minimum left at the general *)
(* minimum, a free-surface factor of 0.05, a tolerance of 0 and of 2e-9.   *)
MIN_GM_LIVESTOCK_AsGeneral == Num(0, 150000000)
FREE_SURFACE_FACTOR_Tenth == Num(0, 50000000)
EPS_Zero == Num(0, 0)
EPS_Double == Num(0, 2)

(* config/limits.py                                                        *)
MIN_GM_M == Num(0, 150000000)
MIN_GM_LIVESTOCK_M == Num(0, 200000000)
MAX_ROLL_PERIOD_S == Num(15, 0)
MIN_FREEBORD_M == Num(0, 300000000)
MAX_TRIM_FRACTION == Num(0, 20000000)
MAX_DRAFT_FRACTION == Num(1, 50000000)
MAX_SWBM_FRACTION == Num(1, 0)
MIN_PROP_IMMERSION_PCT == Num(60, 0)
MIN_VISIBILITY_M == Num(1, 0)
MIN_AIR_DRAFT_M == Num(5, 0)
FREE_SURFACE_FACTOR == Num(0, 500000000)
EPS == Num(0, 1)

----------------------------------------------------------------------------
(***************************************************************************)
(* Stability calculator: compute_stability(KM, KG, tank_volumes, tanks).   *)
(* tanks maps a tank id to its capacity (m3), volumes a tank id to the     *)
(* supplied volume (m3).                                                   *)
(***************************************************************************)
(* A tank is slack when its fill is strictly between 0% and 100%.          *)
IsSlack(tanks, volumes, t) ==
    /\ t \in DOMAIN volumes
    /\ 0 < volumes[t]
    /\ volumes[t] < tanks[t]

SlackTanks(tanks, volumes) ==
    {t \in DOMAIN tanks : IsSlack(tanks, volumes, t)}

GmRaw(km, kg) == NumSub(km, kg)

FreeSurfaceCorrection(tanks, volumes) ==
    NumTimes(Cardinality(SlackTanks(tanks, volumes)), FREE_SURFACE_FACTOR)

GmEffective(km, kg, tanks, volumes) ==
    NumSub(GmRaw(km, kg), FreeSurfaceCorrection(tanks, volumes))

ComputeStability(km, kg, tanks, volumes) ==
    [gm_m |-> GmRaw(km, kg),
     gm_effective |-> GmEffective(km, kg, tanks, volumes)]

----------------------------------------------------------------------------
(***************************************************************************)
(* Criteria engine: evaluate(results_so_far, limits).                      *)
(***************************************************************************)
RuleNames ==
    <<"Minimum GM", "Roll period", "Freeboard", "Trim", "Draft",
      "Strength (bending)", "Propeller immersion", "Visibility", "Air draft">>

RuleIds == 1..Len(RuleNames)

(* The pass condition of each rule: attained >= limit or attained <= limit *)
RuleDirection ==
    <<">=", "<=", ">=", "<=", "<=", "<=", ">=", ">=", ">=">>

LivestockAboard(pen_loadings) ==
    \E p \in DOMAIN pen_loadings : pen_loadings[p] # 0

MinGmLimit(pen_loadings) ==
    IF LivestockAboard(pen_loadings) THEN MIN_GM_LIVESTOCK_M ELSE MIN_GM_M

RuleLimit(r, pen_loadings) ==
    CASE r = 1 -> MinGmLimit(pen_loadings)
      [] r = 2 -> MAX_ROLL_PERIOD_S
      [] r = 3 -> MIN_FREEBORD_M
      [] r = 4 -> MAX_TRIM_FRACTION
      [] r = 5 -> MAX_DRAFT_FRACTION
      [] r = 6 -> MAX_SWBM_FRACTION
      [] r = 7 -> MIN_PROP_IMMERSION_PCT
      [] r = 8 -> MIN_VISIBILITY_M
      [] r = 9 -> MIN_AIR_DRAFT_M

(* margin = attained - limit, normalised to the pass direction.            *)
Margin(dir, attained, limit) ==
    IF dir = ">=" THEN NumSub(attained, limit) ELSE NumSub(limit, attained)

(* Equality within EPS counts as PASS.                                     *)
WithinEps(attained, limit) == NumLe(NumAbs(NumSub(attained, limit)), EPS)

RuleResult(dir, attained, limit) ==
    IF WithinEps(attained, limit) THEN "PASS"
    ELSE IF NumLe(NumZero, Margin(dir, attained, limit)) THEN "PASS"
    ELSE "FAIL"

CriterionLine(r, attained, limit) ==
    [code |-> r,
     name |-> RuleNames[r],
     result |-> RuleResult(RuleDirection[r], attained, limit),
     value |-> attained,
     limit |-> limit,
     margin |-> Margin(RuleDirection[r], attained, limit)]

CountResult(lines, res) ==
    Cardinality({i \in DOMAIN lines : lines[i].result = res})

(* attained: the figure each rule checks, indexed by rule.                 *)
Evaluate(attained, pen_loadings) ==
    LET lines == [r \in RuleIds |->
                     CriterionLine(r, attained[r], RuleLimit(r, pen_loadings))]
    IN [lines |-> lines,
        passed |-> CountResult(lines, "PASS"),
        failed |-> CountResult(lines, "FAIL")]

----------------------------------------------------------------------------
(***************************************************************************)
(* Validation and alarm builder.                                           *)
(***************************************************************************)
Issue(sev, msg, ref) == [severity |-> sev, message |-> msg, ref |-> ref]

(* The ids of a set in ascending order.                                    *)
RECURSIVE Ascending(_)
Ascending(S) ==
    IF S = {} THEN <<>>
    ELSE LET m == CHOOSE x \in S : \A y \in S : x <= y
         IN <<m>> \o Ascending(S \ {m})

(* any(i.severity == sev for i in issues)                                  *)
RECURSIVE AnySeverity(_, _)
AnySeverity(issues, sev) ==
    IF issues = <<>> THEN FALSE
    ELSE Head(issues).severity = sev \/ AnySeverity(Tail(issues), sev)

(* has_errors that looks at the first issue only.                          *)
HasErrorsFirstOnly(v) ==
    v.issues # <<>> /\ Head(v.issues).severity = "ERROR"

(* ValidationResult.has_errors / has_warnings: derived from the issues.    *)
HasErrors(v) == AnySeverity(v.issues, "ERROR")
HasWarnings(v) == AnySeverity(v.issues, "WARNING")

NewValidation(gm_eff) == [issues |-> <<>>, gm_effective |-> gm_eff]

AddIssues(v, more) == [v EXCEPT !.issues = v.issues \o more]

(* out-of-table interpolation: WARNING                                     *)
RangeIssues(out_of_range) ==
    IF out_of_range
    THEN <<Issue("WARNING", "outside hydrostatic table range", 0)>>
    ELSE <<>>

(* slack-tank detection: informational, one issue per slack tank           *)
SlackIssues(tanks, volumes) ==
    LET ids == Ascending(SlackTanks(tanks, volumes))
    IN [i \in 1..Len(ids) |-> Issue("INFO", "slack tank", ids[i])]

OverCapacityPens(pens, pen_loadings) ==
    {p \in DOMAIN pens :
        p \in DOMAIN pen_loadings /\ pen_loadings[p] > pens[p]}

(* head count exceeding pen capacity: WARNING, one issue per pen           *)
PenIssues(pens, pen_loadings) ==
    LET ids == Ascending(OverCapacityPens(pens, pen_loadings))
    IN [i \in 1..Len(ids) |->
           Issue("WARNING", "head count exceeds pen capacity", ids[i])]

FailedRules(criteria) ==
    {r \in DOMAIN criteria.lines : criteria.lines[r].result = "FAIL"}

(* Criterion failures dropped from the validation issues.                  *)
CriteriaIssuesNone(criteria) == <<>>

(* any FAILed criterion: ERROR, one issue per failed line                  *)
CriteriaIssues(criteria) ==
    LET ids == Ascending(FailedRules(criteria))
    IN [i \in 1..Len(ids) |->
           Issue("ERROR", criteria.lines[ids[i]].name, ids[i])]

(* build_validation: the issues in the order the stages raise them.        *)
BuildValidation(gm_eff, out_of_range, tanks, volumes, pens, pen_loadings,
                criteria) ==
    AddIssues(
      AddIssues(
        AddIssues(
          AddIssues(NewValidation(gm_eff), RangeIssues(out_of_range)),
          SlackIssues(tanks, volumes)),
        PenIssues(pens, pen_loadings)),
      CriteriaIssues(criteria))

AlarmRow(no, status, description, type) ==
    [no |-> no, status |-> status, description |-> description, type |-> type]

CriterionRows(criteria) ==
    [i \in 1..Len(criteria.lines) |->
        AlarmRow(i, criteria.lines[i].result, criteria.lines[i].name,
                 "criterion")]

(* Issue rows carrying the issue's own severity instead of WARN.            *)
IssueRowsBySeverity(validation, first) ==
    [j \in 1..Len(validation.issues) |->
        AlarmRow(first + j,
                 IF validation.issues[j].severity = "ERROR" THEN "FAIL"
                 ELSE "WARN",
                 validation.issues[j].message, "validation")]

IssueRows(validation, first) ==
    [j \in 1..Len(validation.issues) |->
        AlarmRow(first + j, "WARN", validation.issues[j].message,
                 "validation")]

(* build_alarm_rows(results, validation, criteria)                         *)
BuildAlarmRows(validation, criteria) ==
    CriterionRows(criteria) \o IssueRows(validation, Len(criteria.lines))

----------------------------------------------------------------------------
(***************************************************************************)
(* One computation.  inp is the request as it reaches the calculator:      *)
(*   km, kg            from the interpolator and the aggregator            *)
(*   tanks, volumes    tank id -> capacity, tank id -> supplied volume     *)
(*   pens, pen_loadings  pen id -> head capacity, pen id -> head count     *)
(*   out_of_range      the interpolator clamped the displacement           *)
(*   attained          rule -> the figure the rule checks (rules 2..9)     *)
(***************************************************************************)
AttainedAll(inp, gm_eff) ==
    [r \in RuleIds |-> IF r = 1 THEN gm_eff ELSE inp.attained[r]]

StageStability(inp) ==
    ComputeStability(inp.km, inp.kg, inp.tanks, inp.volumes)

StageCriteria(inp, stab) ==
    Evaluate(AttainedAll(inp, stab.gm_effective), inp.pen_loadings)

StageValidation(inp, stab, criteria) ==
    BuildValidation(stab.gm_effective, inp.out_of_range, inp.tanks,
                    inp.volumes, inp.pens, inp.pen_loadings, criteria)

(* str(n) of a count.                                                      *)
CountText(n) == ToString(n)

(* criteria_summary: "{passed} passed, {failed} failed"                    *)
Summary(criteria) ==
    CountText(criteria.passed) \o " passed, "
       \o CountText(criteria.failed) \o " failed"

(* ResultsView.update_results: the criteria summary of the report text,    *)
(* f"{criteria.passed} passed, {criteria.failed} failed".                  *)
CritSumFailedFirst(criteria) ==
    CountText(criteria.failed) \o " passed, "
       \o CountText(criteria.passed) \o " failed"

CritSum(criteria) ==
    CountText(criteria.passed) \o " passed, "
       \o CountText(criteria.failed) \o " failed"

(* The result assembler: the complete ConditionResults.                    *)
Assemble(stab, criteria, validation, alarms) ==
    [gm_m |-> stab.gm_m,
     criteria |-> criteria,
     validation |-> validation,
     alarms |-> alarms,
     snapshot |-> [criteria_summary |-> Summary(criteria)]]

ComputeResults(inp) ==
    LET stab == StageStability(inp)
        criteria == StageCriteria(inp, stab)
        validation == StageValidation(inp, stab, criteria)
    IN Assemble(stab, criteria, validation,
                BuildAlarmRows(validation, criteria))

----------------------------------------------------------------------------
(***************************************************************************)
(* The requests the engine is run on.                                      *)
(***************************************************************************)
MaxTanks == 2
MaxPens == 1

TankCapacity(t) == 100 * t
PenCapacity(p) == 10

EngineTanks == [t \in 1..MaxTanks |-> TankCapacity(t)]
EnginePens == [p \in 1..MaxPens |-> PenCapacity(p)]

(* Supplied volumes: empty, part filled (50 m3), full.                     *)
VolumeMaps ==
    {v \in [1..MaxTanks -> {0, 50} \cup {TankCapacity(t) : t \in 1..MaxTanks}] :
        \A t \in 1..MaxTanks : v[t] \in {0, 50, TankCapacity(t)}}

(* Head counts: none, exactly the capacity, one over the capacity.         *)
LoadingMaps ==
    {l \in [1..MaxPens -> {0, 10, 11}] :
        \A p \in 1..MaxPens : l[p] \in {0, PenCapacity(p), PenCapacity(p) + 1}}

NoLoadings == [p \in {} |-> 0]

(* KM - KG before the free-surface correction.                             *)
GmRawValues ==
    {Num(0, 149999998), Num(0, 149999999), Num(0, 150000000),
     Num(0, 175000000),
     Num(0, 199999998), Num(0, 199999999), Num(0, 200000000),
     Num(0, 200000001), Num(0, 699999999), Num(1, 500000000)}

EngineKG == Num(6, 250000000)

Deltas == {-2, -1, 0, 1, 2}

OtherRules == RuleIds \ {1}

(* Every rule 2..9 at its limit + d * 1e-9.                                *)
AttainedAtLimit(d) ==
    [r \in OtherRules |->
        LET lim == RuleLimit(r, NoLoadings) IN NumNorm(lim.u, lim.n + d)]

(* Every rule 2..9 well inside its limit.                                  *)
AttainedNominal ==
    [r \in OtherRules |->
        IF RuleDirection[r] = ">="
        THEN NumAdd(RuleLimit(r, NoLoadings), Num(1, 0))
        ELSE NumSub(RuleLimit(r, NoLoadings), Num(0, 10000000))]

(* Rules at different distances from their limits, in units of 1e-9.       *)
MixedDeltas == <<0, 1, -2, 2, -2, 0, -1, 1, 2>>

AttainedMixed ==
    [r \in OtherRules |->
        LET lim == RuleLimit(r, NoLoadings)
        IN NumNorm(lim.u, lim.n + MixedDeltas[r])]

AttainedChoices ==
    {AttainedAtLimit(d) : d \in Deltas} \cup {AttainedNominal, AttainedMixed}

EngineInputs ==
    [km : {NumAdd(EngineKG, g) : g \in GmRawValues},
     kg : {EngineKG},
     tanks : {EngineTanks},
     volumes : VolumeMaps,
     pens : {EnginePens},
     pen_loadings : LoadingMaps,
     out_of_range : BOOLEAN,
     attained : AttainedChoices]


----------------------------------------------------------------------------
(***************************************************************************)
(* Weight and moment aggregator, hydrostatic interpolator and the whole    *)
(* computation.  Masses are in kg, lengths in cm; a float quotient is held *)
(* to the unit (integer division).                                         *)
(***************************************************************************)
FLUID_DENSITY_KG_M3 == 1025

(* The 0.5 t per head taken for half of it.                                *)
MASS_PER_HEAD_KG_Halved == 500 \div 2

MASS_PER_HEAD_KG == 500

Cog(l, v, t) == [l |-> l, v |-> v, t |-> t]
Axes == {"l", "v", "t"}

(* The fixed position of a tank and of a pen.                              *)
TankCog(t) == Cog(500 * t, 100 * t, 0)
PenCog(p) == Cog(1500, 900 + 100 * p, 0)

(* A coordinate in cm as a number of metres.                               *)
CmToNum(c) == Num(c \div 100, (c % 100) * 10000000)

RECURSIVE SumOver(_, _, _)
SumOver(ids, i, f) ==
    IF i > Len(ids) THEN 0 ELSE f[ids[i]] + SumOver(ids, i + 1, f)

(* The mass each tank and each pen adds: only items with a non-zero        *)
(* supplied volume or head count add any.                                  *)
TankMassOfCapacity(tanks, volumes) ==
    [t \in DOMAIN tanks |-> tanks[t] * FLUID_DENSITY_KG_M3]

TankMass(tanks, volumes) ==
    [t \in DOMAIN tanks |->
        IF t \in DOMAIN volumes /\ volumes[t] # 0
        THEN volumes[t] * FLUID_DENSITY_KG_M3 ELSE 0]

PenMass(pens, heads, mass_per_head) ==
    [p \in DOMAIN pens |->
        IF p \in DOMAIN heads /\ heads[p] # 0
        THEN heads[p] * mass_per_head ELSE 0]

(* displacement resolves to zero or negative: InvalidInputError            *)
DisplacementRejected(displacement) == displacement <= 0

(* aggregate falling back to the lightship centre of gravity when there   *)
(* is no displacement to divide by.                                        *)
AggregateWithFallback(ship, tanks, volumes, pens, heads, mass_per_head) ==
    LET tm == TankMass(tanks, volumes)
        pm == PenMass(pens, heads, mass_per_head)
        tids == Ascending(DOMAIN tanks)
        pids == Ascending(DOMAIN pens)
        displacement ==
            ship.lightship_kg + SumOver(tids, 1, tm) + SumOver(pids, 1, pm)
    IN [ok |-> TRUE, displacement |-> displacement, cog |-> ship.cog]

(* aggregate(ship, tanks, tank_volumes, pens, pen_head_counts,             *)
(* mass_per_head) -> (displacement, LCG, VCG, TCG)                         *)
Aggregate(ship, tanks, volumes, pens, heads, mass_per_head) ==
    LET tm == TankMass(tanks, volumes)
        pm == PenMass(pens, heads, mass_per_head)
        tids == Ascending(DOMAIN tanks)
        pids == Ascending(DOMAIN pens)
        displacement ==
            ship.lightship_kg + SumOver(tids, 1, tm) + SumOver(pids, 1, pm)
        moment(a) ==
            ship.lightship_kg * ship.cog[a]
               + SumOver(tids, 1, [t \in DOMAIN tanks |-> tm[t] * TankCog(t)[a]])
               + SumOver(pids, 1, [p \in DOMAIN pens |-> pm[p] * PenCog(p)[a]])
    IN IF DisplacementRejected(displacement)
       THEN [ok |-> FALSE, error |-> "InvalidInputError"]
       ELSE [ok |-> TRUE,
             displacement |-> displacement,
             cog |-> [a \in Axes |-> moment(a) \div displacement]]

(* Linear interpolation between two bracketing rows.                       *)
Lerp(v0, v1, x0, x1, x) ==
    IF x1 = x0 THEN v0 ELSE v0 + ((v1 - v0) * (x - x0)) \div (x1 - x0)

RowFields == {"draft", "lcf", "km", "mctc"}

(* The row values at a displacement: clamped to the nearest boundary row   *)
(* outside the table's domain, interpolated inside.                        *)
RowAt(table, displacement) ==
    LET n == Len(table)
    IN IF displacement < table[1].displacement
       THEN [clamped |-> TRUE, row |-> [f \in RowFields |-> table[1][f]]]
       ELSE IF displacement > table[n].displacement
       THEN [clamped |-> TRUE, row |-> [f \in RowFields |-> table[n][f]]]
       ELSE LET i == IF n = 1 THEN 1
                     ELSE CHOOSE k \in 1..(n - 1) :
                            /\ table[k].displacement <= displacement
                            /\ displacement <= table[k + 1].displacement
                            /\ \A j \in 1..(k - 1) :
                                  table[j + 1].displacement < displacement
                j == IF n = 1 THEN 1 ELSE i + 1
            IN [clamped |-> FALSE,
                row |-> [f \in RowFields |->
                            Lerp(table[i][f], table[j][f],
                                 table[i].displacement, table[j].displacement,
                                 displacement)]]

(* Clamping that is not flagged.                                           *)
InterpolateUnflagged(table, displacement, lcg) ==
    LET at == RowAt(table, displacement)
    IN [draft |-> at.row.draft,
        trim |-> ((lcg - at.row.lcf) * (displacement \div 1000)) \div at.row.mctc,
        km |-> at.row.km,
        clamped |-> FALSE]

(* interpolate(table, displacement, LCG) -> (draft, trim, KM), with        *)
(* trim = (LCG - LCF) * displacement / MCTC.                               *)
Interpolate(table, displacement, lcg) ==
    LET at == RowAt(table, displacement)
    IN [draft |-> at.row.draft,
        trim |-> ((lcg - at.row.lcf) * (displacement \div 1000)) \div at.row.mctc,
        km |-> at.row.km,
        clamped |-> at.clamped]

(* What the calculator, the criteria engine and the validation builder are *)
(* given once the displacement and the hydrostatics are known.             *)
CalculatorInput(req, agg, hyd) ==
    [km |-> CmToNum(hyd.km), kg |-> CmToNum(agg.cog.v),
     tanks |-> req.tanks, volumes |-> req.volumes,
     pens |-> req.pens, pen_loadings |-> req.pen_loadings,
     out_of_range |-> hyd.clamped,
     attained |-> AttainedNominal]

(* The ConditionResults of a computation that got through.                 *)
AssembleCondition(req, agg, hyd) ==
    ComputeResults(CalculatorInput(req, agg, hyd))
       @@ [displacement |-> agg.displacement,
           draft |-> hyd.draft, trim |-> hyd.trim,
           kg |-> agg.cog.v, km |-> hyd.km]

NoOutcome == [returned |-> FALSE, raised |-> FALSE]

(* The ships a computation is asked for: a hydrostatic table in ascending  *)
(* order of displacement, and the lightship weight and centre of gravity.  *)
HydroTable ==
    <<[displacement |-> 100000, draft |-> 200, lcf |-> 2000, km |-> 800,
       mctc |-> 50],
      [displacement |-> 200000, draft |-> 300, lcf |-> 2000, km |-> 750,
       mctc |-> 60],
      [displacement |-> 300000, draft |-> 400, lcf |-> 1950, km |-> 700,
       mctc |-> 70]>>

LightshipWeights == {0, 100000, 250000}

ComputeShips ==
    {[lightship_kg |-> w, cog |-> Cog(2000, 625, 0), table |-> HydroTable] :
        w \in LightshipWeights}

(* Tank volumes as supplied: those of VolumeMaps, and a negative one.      *)
ComputeVolumeMaps ==
    VolumeMaps \cup {[t \in DOMAIN EngineTanks |-> IF t = 1 THEN -50 ELSE 0]}

ComputeRequests ==
    [ship : ComputeShips,
     tanks : {EngineTanks},
     volumes : ComputeVolumeMaps,
     pens : {EnginePens},
     pen_loadings : LoadingMaps]

----------------------------------------------------------------------------
(***************************************************************************)
(* The condition editor (ConditionEditorView).  An Optional[int] id is 0   *)
(* when it is None.                                                        *)
(***************************************************************************)
MaxShips == 2
MaxVoyages == 2
MaxStored == 2

ShipIds == 1..MaxShips

(* The ship a tank or a pen belongs to.                                    *)
ShipOfTank(t) == ((t - 1) % MaxShips) + 1
ShipOfPen(p) == ((p - 1) % MaxShips) + 1

(* ConditionService.get_tanks_for_ship / get_pens_for_ship: id -> capacity *)
(* of the tanks and pens the database holds for the ship.                  *)
TanksForShip(s) ==
    [t \in {x \in db_tanks : ShipOfTank(x) = s} |-> TankCapacity(t)]
PensForShip(s) ==
    [p \in {x \in db_pens : ShipOfPen(x) = s} |-> PenCapacity(p)]

(* The voyages: voyage v is a voyage of ship ShipOfVoyage(v).              *)
VoyageIds == 1..MaxVoyages
ShipOfVoyage(v) == ((v - 1) % MaxShips) + 1

(* VoyageService.list_voyages_for_ship, list_conditions_for_voyage         *)
ListVoyagesForShip(s) == Ascending({v \in VoyageIds : ShipOfVoyage(v) = s})
ListConditionsForVoyage(stored, v) ==
    LET ids == Ascending({i \in DOMAIN stored : stored[i].voyage_id = v})
    IN [k \in 1..Len(ids) |-> stored[ids[k]]]

(* VoyageService.save_condition: a condition without id is stored under   *)
(* the next id, one with an id replaces the stored one.                    *)
SaveStored(stored, c) ==
    IF c.id = 0
    THEN Append(stored, [c EXCEPT !.id = Len(stored) + 1])
    ELSE [stored EXCEPT ![c.id] = c]

(* A table cell's text: num says whether float(text) succeeds, val is the  *)
(* number it gives.  NanCell is the text "nan": float accepts it, every    *)
(* comparison with the value is false, and int() of it raises ValueError.  *)
Cell(num, val) == [num |-> num, val |-> val]
NanCell == [num |-> TRUE, val |-> 0, nan |-> TRUE]
IsNan(cell) == "nan" \in DOMAIN cell
FillCells == {Cell(TRUE, -5), Cell(TRUE, 0), Cell(TRUE, 50), Cell(TRUE, 100),
              Cell(TRUE, 150), Cell(FALSE, 0), NanCell}
HeadCells == {Cell(TRUE, -3), Cell(TRUE, 0), Cell(TRUE, 10), Cell(TRUE, 11),
              Cell(FALSE, 0), NanCell}
NameTexts == {"", "Departure"}

Max(a, b) == IF a >= b THEN a ELSE b
Min(a, b) == IF a <= b THEN a ELSE b

(* dict.get(key, 0)                                                        *)
GetOr0(d, k) == IF k \in DOMAIN d THEN d[k] ELSE 0

(* _populate_tanks_table(tanks, volumes): one row per tank, in list order, *)
(* the fill cell holding vol / capacity * 100 (whole percents here).       *)
PopulateTanksTable(tanks, volumes) ==
    LET ids == Ascending(DOMAIN tanks)
    IN [i \in 1..Len(ids) |->
           [id |-> ids[i],
            cell |-> Cell(TRUE, IF tanks[ids[i]] > 0
                                THEN (GetOr0(volumes, ids[i]) * 100)
                                        \div tanks[ids[i]]
                                ELSE 0)]]

(* _populate_pens_table(pens, pen_loadings): one row per pen, the head     *)
(* cell holding str(loadings.get(pen.id, 0)).                              *)
PopulatePensTable(pens, loadings) ==
    LET ids == Ascending(DOMAIN pens)
    IN [i \in 1..Len(ids) |->
           [id |-> ids[i], cell |-> Cell(TRUE, GetOr0(loadings, ids[i]))]]

(* The percentage as typed, without the clamp.                             *)
FillPctAsTyped(cell) == IF cell.num THEN cell.val ELSE 0

(* try: float(text) except: 0.0; then max(0.0, min(100.0, fill_pct)).      *)
(* min(100.0, x) is x only if x < 100.0, so it is 100.0 for nan.           *)
FillPct(cell) ==
    IF ~cell.num THEN Max(0, Min(100, 0))
    ELSE IF IsNan(cell) THEN Max(0, 100)
    ELSE Max(0, Min(100, cell.val))

(* try: int(float(text)) except (TypeError, ValueError): 0                 *)
IntOfText(cell) == IF cell.num /\ ~IsNan(cell) THEN cell.val ELSE 0

(* heads = int(float(text)) or 0; then max(0, heads)                       *)
Heads(cell) == Max(0, IntOfText(cell))

(* The tank loop of _on_compute: rows whose tank is unknown are skipped,   *)
(* vol = capacity * (fill_pct / 100).                                      *)
ComputeTankVolumes(table, tank_by_id) ==
    LET rows == {i \in DOMAIN table : table[i].id \in DOMAIN tank_by_id}
        last(t) == CHOOSE i \in rows :
                      table[i].id = t /\ \A j \in rows : table[j].id = t => j <= i
    IN [t \in {table[i].id : i \in rows} |->
           (tank_by_id[t] * FillPct(table[last(t)].cell)) \div 100]

(* The tank loop of _on_save_condition: the percentage is clamped first,   *)
(* then a row whose tank is unknown is skipped.                            *)
SaveTankVolumes(table, tank_by_id) ==
    LET pct(i) == FillPct(table[i].cell)
        rows == {i \in DOMAIN table : table[i].id \in DOMAIN tank_by_id}
        last(t) == CHOOSE i \in rows :
                      table[i].id = t /\ \A j \in rows : table[j].id = t => j <= i
    IN [t \in {table[i].id : i \in rows} |->
           (tank_by_id[t] * pct(last(t))) \div 100]

(* The pen loop of _on_compute: only pens with heads > 0 are kept.         *)
ComputePenLoadings(table) ==
    LET rows == {i \in DOMAIN table : Heads(table[i].cell) > 0}
        last(p) == CHOOSE i \in rows :
                      table[i].id = p /\ \A j \in rows : table[j].id = p => j <= i
    IN [p \in {table[i].id : i \in rows} |-> Heads(table[last(p)].cell)]

(* That loop keeping every row, whatever its head count.                   *)
SavePenLoadingsUnfiltered(table) ==
    LET last(p) == CHOOSE i \in DOMAIN table :
                      table[i].id = p
                      /\ \A j \in DOMAIN table : table[j].id = p => j <= i
    IN [p \in {table[i].id : i \in DOMAIN table} |->
           IntOfText(table[last(p)].cell)]

(* The pen loop of _on_save_condition: int(float(text)), 0 when that       *)
(* fails, kept only if > 0.                                                *)
SavePenLoadings(table) ==
    LET heads(i) == IntOfText(table[i].cell)
        rows == {i \in DOMAIN table : heads(i) > 0}
        last(p) == CHOOSE i \in rows :
                      table[i].id = p /\ \A j \in rows : table[j].id = p => j <= i
    IN [p \in {table[i].id : i \in rows} |-> heads(last(p))]

(* condition_name_edit.text().strip() or "Condition"                       *)
ConditionName(text) == IF text = "" THEN "Condition" ELSE text

NoCondition == [set |-> FALSE]

(* The LoadingCondition _on_compute builds from the form.                  *)
BuildCondition(cur, voyage, name, tank_volumes, pen_loadings) ==
    [id |-> IF cur.set THEN cur.c.id ELSE 0,
     voyage_id |-> voyage,
     name |-> ConditionName(name),
     tank_volumes_m3 |-> tank_volumes,
     pen_loadings |-> pen_loadings]

(* What the stages before the calculator hand over for a ship: KM, the     *)
(* clamping flag, the figures of rules 2..9, and the displacement (kg),    *)
(* draft and trim (cm).                                                    *)
EditorFigures ==
    {[km |-> NumAdd(EngineKG, Num(1, 500000000)), out_of_range |-> FALSE,
      attained |-> AttainedNominal,
      displacement_t |-> 250000, draft_m |-> 350, trim_m |-> -25],
     [km |-> NumAdd(EngineKG, Num(1, 500000000)), out_of_range |-> TRUE,
      attained |-> AttainedAtLimit(-2),
      displacement_t |-> 250000, draft_m |-> 350, trim_m |-> -25]}

(* cond_service.compute(ship, condition, tank_volumes) when it returns.    *)
ServiceCompute(ship, condition, tank_volumes, fig) ==
    ComputeResults([km |-> fig.km, kg |-> EngineKG,
                    tanks |-> TanksForShip(ship), volumes |-> tank_volumes,
                    pens |-> PensForShip(ship),
                    pen_loadings |-> condition.pen_loadings,
                    out_of_range |-> fig.out_of_range,
                    attained |-> fig.attained])
       @@ [displacement_t |-> fig.displacement_t, draft_m |-> fig.draft_m,
           trim_m |-> fig.trim_m]

Event(kind, title) == [kind |-> kind, title |-> title]

(* _on_compute after compute has returned, with a failing condition        *)
(* treated as an error: no signal.                                         *)
AfterComputeAbortOnFail(results, ship, condition, voyage) ==
    IF HasErrors(results.validation)
    THEN [emitted |-> <<>>,
          events |-> <<Event("warning", "Computed - FAILED")>>]
    ELSE [emitted |-> <<[results |-> results, ship |-> ship,
                         condition |-> condition, voyage |-> voyage]>>,
          events |-> <<Event("emit", "condition_computed"),
                       Event("information", "Computed")>>]

(* _on_compute after compute has returned: emit, then the message box.     *)
AfterCompute(results, ship, condition, voyage) ==
    [emitted |-> <<[results |-> results, ship |-> ship,
                    condition |-> condition, voyage |-> voyage]>>,
     events |-> <<Event("emit", "condition_computed"),
                  IF HasErrors(results.validation)
                  THEN Event("warning", "Computed - FAILED")
                  ELSE Event("information", "Computed")>>]


(* The editor's fields as one record, for the handlers that call each      *)
(* other; stored is the conditions the database holds when the handler    *)
(* reads them.  A combo box emits currentIndexChanged when clear() empties *)
(* it and when the first item is added to it; the voyage combo's signals   *)
(* only repeat the call _load_voyages makes itself.                        *)
EditorState ==
    [stored |-> db_conditions,
     ships |-> ed_ships, ship |-> ed_ship, voyage |-> ed_voyage,
     condition |-> ed_condition, name |-> ed_name,
     tank_table |-> ed_tank_table, pen_table |-> ed_pen_table,
     save_enabled |-> ed_save_enabled, voyages |-> ed_voyages,
     conditions |-> ed_conditions, cond_items |-> ed_cond_items]

(* _set_current_ship(ship): the tables are filled from the current         *)
(* condition, or with zeros when there is none.                            *)
SetCurrentShip(e, ship) ==
    LET volumes == IF e.condition.set THEN e.condition.c.tank_volumes_m3
                   ELSE <<>>
        loadings == IF e.condition.set THEN e.condition.c.pen_loadings
                    ELSE <<>>
    IN [e EXCEPT !.ship = ship,
                 !.tank_table = PopulateTanksTable(TanksForShip(ship), volumes),
                 !.pen_table = PopulatePensTable(PensForShip(ship), loadings)]

(* One statement after another: H runs on the state that e has reached.    *)
Then(e, H(_)) == CHOOSE r \in {H(x) : x \in {e}} : TRUE

(* _on_condition_changed(index)                                            *)
ConditionChanged(e, index) ==
    Then(IF index <= 0
         THEN [e EXCEPT !.condition = NoCondition, !.name = ""]
         ELSE IF index - 1 < Len(e.conditions)
         THEN [e EXCEPT
                 !.condition = [set |-> TRUE, c |-> e.conditions[index]],
                 !.name = e.conditions[index].name]
         ELSE e,
         LAMBDA e1 :
    Then([e1 EXCEPT !.save_enabled = (e1.voyage # 0)],
         LAMBDA e2 :
    IF e2.ship # 0 THEN SetCurrentShip(e2, e2.ship) ELSE e2))

(* _load_conditions()                                                      *)
LoadConditions(e) ==
    Then(IF e.cond_items > 0
         THEN ConditionChanged([e EXCEPT !.cond_items = 0], -1)
         ELSE e,
         LAMBDA cleared :
    Then([cleared EXCEPT !.conditions = <<>>],
         LAMBDA e1 :
    IF e1.voyage = 0 THEN e1
    ELSE
    Then(ListConditionsForVoyage(e1.stored, e1.voyage),
         LAMBDA listed :
    Then(ConditionChanged([e1 EXCEPT !.conditions = listed,
                                     !.cond_items = 1], 0),
         LAMBDA e2 :
    Then([e2 EXCEPT !.cond_items = 1 + Len(listed)],
         LAMBDA e3 :
    ConditionChanged(e3, 0))))))

(* _on_voyage_changed(index)                                               *)
VoyageChanged(e, index) ==
    Then(IF index <= 0
         THEN [e EXCEPT !.voyage = 0, !.condition = NoCondition]
         ELSE IF index - 1 < Len(e.voyages)
         THEN [e EXCEPT !.voyage = e.voyages[index],
                        !.condition = NoCondition]
         ELSE e,
         LAMBDA e1 :
    Then(LoadConditions(e1),
         LAMBDA e2 :
    Then([e2 EXCEPT !.save_enabled = (e2.voyage # 0)],
         LAMBDA e3 :
    IF e3.ship # 0 THEN SetCurrentShip(e3, e3.ship) ELSE e3)))

(* _load_voyages()                                                         *)
LoadVoyages(e) ==
    IF e.ship = 0
    THEN Then(IF e.cond_items > 0
              THEN ConditionChanged([e EXCEPT !.cond_items = 0], -1)
              ELSE e,
              LAMBDA cleared :
         [cleared EXCEPT !.voyages = <<>>, !.conditions = <<>>])
    ELSE Then([e EXCEPT !.voyages = ListVoyagesForShip(e.ship)],
              LAMBDA e1 :
         VoyageChanged(e1, 0))

(* The ship replaced and the tables refilled, nothing else.                *)
ShipChangedOnly(e, index) == SetCurrentShip(e, e.ships[index + 1])

(* _on_ship_changed(index)                                                 *)
(* for an index of the ship list: the ship combo is filled once and never  *)
(* cleared, so it delivers no other.                                       *)
ShipChanged(e, index) ==
    Then([e EXCEPT !.ship = e.ships[index + 1], !.voyage = 0,
                   !.condition = NoCondition],
         LAMBDA e1 :
    Then(LoadVoyages(e1),
         LAMBDA e2 :
    SetCurrentShip(e2, e2.ship)))

(* load_condition(voyage_id, condition_id), for a voyage and a condition   *)
(* that exist.                                                             *)
LoadCondition(e, voyage_id, condition) ==
    LET ship == ShipOfVoyage(voyage_id)
        known == \E i \in DOMAIN e.ships : e.ships[i] = ship
    IN
    Then(IF known THEN e
         ELSE IF e.ships = <<>>
         THEN ShipChanged([e EXCEPT !.ships = Append(e.ships, ship)], 0)
         ELSE [e EXCEPT !.ships = Append(e.ships, ship)],
         LAMBDA e1 :
    Then([e1 EXCEPT !.ship = ship, !.voyage = voyage_id,
                    !.condition = [set |-> TRUE, c |-> condition]],
         LAMBDA e2 :
    Then(LoadVoyages(e2),
         LAMBDA e3 :
    Then(LoadConditions(e3),
         LAMBDA e4 :
    [e4 EXCEPT
       !.name = condition.name,
       !.save_enabled = TRUE,
       !.tank_table = PopulateTanksTable(TanksForShip(ship),
                                         condition.tank_volumes_m3),
       !.pen_table = PopulatePensTable(PensForShip(ship),
                                       condition.pen_loadings)]))))

(* The handler's result becomes the editor's state.                        *)
Becomes(e) ==
    \E x \in {e} :
        /\ ed_ships' = x.ships
        /\ ed_ship' = x.ship
        /\ ed_voyage' = x.voyage
        /\ ed_condition' = x.condition
        /\ ed_name' = x.name
        /\ ed_tank_table' = x.tank_table
        /\ ed_pen_table' = x.pen_table
        /\ ed_save_enabled' = x.save_enabled
        /\ ed_voyages' = x.voyages
        /\ ed_conditions' = x.conditions
        /\ ed_cond_items' = x.cond_items


----------------------------------------------------------------------------
(* The file service as a state machine.                                    *)
NoStability == [gm_m |-> NumZero, gm_effective |-> NumZero]
NoCriteria == [lines |-> <<>>, passed |-> 0, failed |-> 0]
NoResult == [complete |-> FALSE]
NoFile == [exists |-> FALSE, data |-> <<>>, intact |-> FALSE]
NotLoaded == [valid |-> FALSE]

InitFile ==
    /\ fs_cond \in InputConditions
    /\ fs_file = NoFile
    /\ fs_written = fs_cond
    /\ fs_loaded = NotLoaded
    \* the engine and the editor are idle
    /\ eng_in = [km |-> NumZero]
    /\ eng_pc = "idle"
    /\ eng_stab = NoStability
    /\ eng_criteria = NoCriteria
    /\ eng_validation = NewValidation(NumZero)
    /\ eng_alarms = <<>>
    /\ eng_result = NoResult
    /\ ed_ships = <<>>
    /\ ed_ship = 0
    /\ ed_voyage = 0
    /\ ed_condition = NoCondition
    /\ ed_name = ""
    /\ ed_tank_table = <<>>
    /\ ed_pen_table = <<>>
    /\ ed_save_enabled = FALSE
    /\ ed_outcome = "idle"
    /\ ed_events = <<>>
    /\ ed_emitted = <<>>
    /\ cp_req = [ship |-> 0]
    /\ cp_pc = "idle"
    /\ cp_agg = [ok |-> FALSE]
    /\ cp_hyd = [clamped |-> FALSE]
    /\ cp_outcome = NoOutcome
    /\ rv_last = [results |-> [set |-> FALSE], ship |-> [set |-> FALSE],
                  condition |-> [set |-> FALSE], voyage |-> [set |-> FALSE]]
    /\ rv_call = [made |-> FALSE]
    /\ rv_status = ""
    /\ rv_gm = ""
    /\ rv_events = <<>>
    /\ rv_exported = <<>>
    /\ rp_tanks = <<>>
    /\ rp_pens = <<>>
    /\ rp_outcome = "idle"
    /\ ed_voyages = <<>>
    /\ ed_conditions = <<>>
    /\ ed_cond_items = 0
    /\ db_tanks = {}
    /\ db_pens = {}
    /\ db_conditions = <<>>

(* save_condition_to_file(filepath, fs_cond)                               *)
Save ==
    /\ fs_file' = [exists |-> TRUE, data |-> SaveConditionToFile(fs_cond),
                   intact |-> TRUE]
    /\ fs_written' = fs_cond
    /\ UNCHANGED <<fs_cond, fs_loaded>>
    /\ UNCHANGED <<engVars, edVars, cpVars, rvVars, rpVars>>

(* load_condition_from_file(filepath); opening a missing file raises and   *)
(* returns nothing.                                                        *)
Load ==
    /\ fs_file.exists
    /\ fs_loaded' = [valid |-> TRUE, c |-> LoadConditionFromFile(fs_file.data),
                     from_save |-> fs_file.intact, data |-> fs_file.data]
    /\ UNCHANGED <<fs_cond, fs_file, fs_written>>
    /\ UNCHANGED <<engVars, edVars, cpVars, rvVars, rpVars>>

(* A file that was not written by this version of save: one field of the   *)
(* object is missing (an older or hand-written file).                      *)
ForeignFile ==
    /\ fs_file.exists /\ fs_file.intact
    /\ \E f \in FieldNames :
          fs_file' = [exists |-> TRUE, intact |-> FALSE,
                      data |-> [g \in FieldNames \ {f} |-> fs_file.data[g]]]
    /\ UNCHANGED <<fs_cond, fs_written, fs_loaded>>
    /\ UNCHANGED <<engVars, edVars, cpVars, rvVars, rpVars>>

(* The caller goes on with the loaded condition and saves it again.        *)
Reopen ==
    /\ fs_loaded.valid /\ fs_loaded.from_save
    /\ fs_cond # fs_loaded.c
    /\ fs_cond' = fs_loaded.c
    /\ UNCHANGED <<fs_file, fs_written, fs_loaded>>
    /\ UNCHANGED <<engVars, edVars, cpVars, rvVars, rpVars>>

NextFile == Save \/ Load \/ ForeignFile \/ Reopen

----------------------------------------------------------------------------
(* One computation of the engine, stage by stage.                          *)

InitEngine ==
    /\ eng_in \in EngineInputs
    /\ eng_pc = "stability"
    /\ eng_stab = NoStability
    /\ eng_criteria = NoCriteria
    /\ eng_validation = NewValidation(NumZero)
    /\ eng_alarms = <<>>
    /\ eng_result = NoResult
    \* the file service and the editor are idle
    /\ fs_cond = [id |-> PyNone]
    /\ fs_file = NoFile
    /\ fs_written = [id |-> PyNone]
    /\ fs_loaded = NotLoaded
    /\ ed_ships = <<>>
    /\ ed_ship = 0
    /\ ed_voyage = 0
    /\ ed_condition = NoCondition
    /\ ed_name = ""
    /\ ed_tank_table = <<>>
    /\ ed_pen_table = <<>>
    /\ ed_save_enabled = FALSE
    /\ ed_outcome = "idle"
    /\ ed_events = <<>>
    /\ ed_emitted = <<>>
    /\ cp_req = [ship |-> 0]
    /\ cp_pc = "idle"
    /\ cp_agg = [ok |-> FALSE]
    /\ cp_hyd = [clamped |-> FALSE]
    /\ cp_outcome = NoOutcome
    /\ rv_last = [results |-> [set |-> FALSE], ship |-> [set |-> FALSE],
                  condition |-> [set |-> FALSE], voyage |-> [set |-> FALSE]]
    /\ rv_call = [made |-> FALSE]
    /\ rv_status = ""
    /\ rv_gm = ""
    /\ rv_events = <<>>
    /\ rv_exported = <<>>
    /\ rp_tanks = <<>>
    /\ rp_pens = <<>>
    /\ rp_outcome = "idle"
    /\ ed_voyages = <<>>
    /\ ed_conditions = <<>>
    /\ ed_cond_items = 0
    /\ db_tanks = {}
    /\ db_pens = {}
    /\ db_conditions = <<>>

(* compute_stability                                                       *)
DoStability ==
    /\ eng_pc = "stability"
    /\ eng_stab' = StageStability(eng_in)
    /\ eng_pc' = "criteria"
    /\ UNCHANGED <<eng_in, eng_criteria, eng_validation, eng_alarms,
                   eng_result>>
    /\ UNCHANGED <<fsVars, edVars, cpVars, rvVars, rpVars>>

(* evaluate                                                                *)
DoEvaluate ==
    /\ eng_pc = "criteria"
    /\ eng_criteria' = StageCriteria(eng_in, eng_stab)
    /\ eng_pc' = "val_range"
    /\ UNCHANGED <<eng_in, eng_stab, eng_validation, eng_alarms, eng_result>>
    /\ UNCHANGED <<fsVars, edVars, cpVars, rvVars, rpVars>>

(* build_validation, issue group by issue group                            *)
DoValidateRange ==
    /\ eng_pc = "val_range"
    /\ eng_validation' = AddIssues(NewValidation(eng_stab.gm_effective),
                                   RangeIssues(eng_in.out_of_range))
    /\ eng_pc' = "val_slack"
    /\ UNCHANGED <<eng_in, eng_stab, eng_criteria, eng_alarms, eng_result>>
    /\ UNCHANGED <<fsVars, edVars, cpVars, rvVars, rpVars>>

DoValidateSlack ==
    /\ eng_pc = "val_slack"
    /\ eng_validation' = AddIssues(eng_validation,
                                   SlackIssues(eng_in.tanks, eng_in.volumes))
    /\ eng_pc' = "val_pens"
    /\ UNCHANGED <<eng_in, eng_stab, eng_criteria, eng_alarms, eng_result>>
    /\ UNCHANGED <<fsVars, edVars, cpVars, rvVars, rpVars>>

DoValidatePens ==
    /\ eng_pc = "val_pens"
    /\ eng_validation' = AddIssues(eng_validation,
                                   PenIssues(eng_in.pens, eng_in.pen_loadings))
    /\ eng_pc' = "val_criteria"
    /\ UNCHANGED <<eng_in, eng_stab, eng_criteria, eng_alarms, eng_result>>
    /\ UNCHANGED <<fsVars, edVars, cpVars, rvVars, rpVars>>

DoValidateCriteria ==
    /\ eng_pc = "val_criteria"
    /\ eng_validation' = AddIssues(eng_validation, CriteriaIssues(eng_criteria))
    /\ eng_pc' = "alarms"
    /\ UNCHANGED <<eng_in, eng_stab, eng_criteria, eng_alarms, eng_result>>
    /\ UNCHANGED <<fsVars, edVars, cpVars, rvVars, rpVars>>

(* build_alarm_rows                                                        *)
DoAlarms ==
    /\ eng_pc = "alarms"
    /\ eng_alarms' = BuildAlarmRows(eng_validation, eng_criteria)
    /\ eng_pc' = "assemble"
    /\ UNCHANGED <<eng_in, eng_stab, eng_criteria, eng_validation, eng_result>>
    /\ UNCHANGED <<fsVars, edVars, cpVars, rvVars, rpVars>>

(* the result assembler                                                    *)
DoAssemble ==
    /\ eng_pc = "assemble"
    /\ eng_result' = [complete |-> TRUE,
                      r |-> Assemble(eng_stab, eng_criteria, eng_validation,
                                     eng_alarms)]
    /\ eng_pc' = "done"
    /\ UNCHANGED <<eng_in, eng_stab, eng_criteria, eng_validation, eng_alarms>>
    /\ UNCHANGED <<fsVars, edVars, cpVars, rvVars, rpVars>>

NextEngine ==
    \/ DoStability
    \/ DoEvaluate
    \/ DoValidateRange
    \/ DoValidateSlack
    \/ DoValidatePens
    \/ DoValidateCriteria
    \/ DoAlarms
    \/ DoAssemble

----------------------------------------------------------------------------
(* One whole computation as a state machine: the aggregator, the           *)
(* interpolator, then the calculator, criteria, validation and assembly.   *)
InitCompute ==
    /\ cp_req \in ComputeRequests
    /\ cp_pc = "aggregate"
    /\ cp_agg = [ok |-> FALSE]
    /\ cp_hyd = [clamped |-> FALSE]
    /\ cp_outcome = NoOutcome
    /\ rv_last = [results |-> [set |-> FALSE], ship |-> [set |-> FALSE],
                  condition |-> [set |-> FALSE], voyage |-> [set |-> FALSE]]
    /\ rv_call = [made |-> FALSE]
    /\ rv_status = ""
    /\ rv_gm = ""
    /\ rv_events = <<>>
    /\ rv_exported = <<>>
    /\ rp_tanks = <<>>
    /\ rp_pens = <<>>
    /\ rp_outcome = "idle"
    \* the file service, the engine stages and the editor are idle
    /\ fs_cond = [id |-> PyNone]
    /\ fs_file = NoFile
    /\ fs_written = [id |-> PyNone]
    /\ fs_loaded = NotLoaded
    /\ eng_in = [km |-> NumZero]
    /\ eng_pc = "idle"
    /\ eng_stab = NoStability
    /\ eng_criteria = NoCriteria
    /\ eng_validation = NewValidation(NumZero)
    /\ eng_alarms = <<>>
    /\ eng_result = NoResult
    /\ ed_ships = <<>>
    /\ ed_ship = 0
    /\ ed_voyage = 0
    /\ ed_condition = NoCondition
    /\ ed_name = ""
    /\ ed_tank_table = <<>>
    /\ ed_pen_table = <<>>
    /\ ed_save_enabled = FALSE
    /\ ed_outcome = "idle"
    /\ ed_events = <<>>
    /\ ed_emitted = <<>>
    /\ ed_voyages = <<>>
    /\ ed_conditions = <<>>
    /\ ed_cond_items = 0
    /\ db_tanks = {}
    /\ db_pens = {}
    /\ db_conditions = <<>>

(* aggregate: on InvalidInputError the computation ends there.             *)
DoAggregate ==
    /\ cp_pc = "aggregate"
    /\ cp_agg' = Aggregate(cp_req.ship, cp_req.tanks, cp_req.volumes,
                           cp_req.pens, cp_req.pen_loadings, MASS_PER_HEAD_KG)
    /\ IF cp_agg'.ok
       THEN /\ cp_pc' = "interpolate"
            /\ UNCHANGED cp_outcome
       ELSE /\ cp_pc' = "aborted"
            /\ cp_outcome' = [returned |-> FALSE, raised |-> TRUE,
                              error |-> cp_agg'.error]
    /\ UNCHANGED <<cp_req, cp_hyd>>
    /\ UNCHANGED <<fsVars, engVars, edVars, rvVars, rpVars>>

DoInterpolate ==
    /\ cp_pc = "interpolate"
    /\ cp_hyd' = Interpolate(cp_req.ship.table, cp_agg.displacement,
                             cp_agg.cog.l)
    /\ cp_pc' = "calculate"
    /\ UNCHANGED <<cp_req, cp_agg, cp_outcome>>
    /\ UNCHANGED <<fsVars, engVars, edVars, rvVars, rpVars>>

(* The stages after the interpolator, up to the assembled result.          *)
DoCalculate ==
    /\ cp_pc = "calculate"
    /\ cp_outcome' = [returned |-> TRUE, raised |-> FALSE,
                      r |-> AssembleCondition(cp_req, cp_agg, cp_hyd)]
    /\ cp_pc' = "done"
    /\ UNCHANGED <<cp_req, cp_agg, cp_hyd>>
    /\ UNCHANGED <<fsVars, engVars, edVars, rvVars, rpVars>>

NextCompute == DoAggregate \/ DoInterpolate \/ DoCalculate

----------------------------------------------------------------------------
(* The condition editor as a state machine.                                *)
(* The database: every tank and pen, and one condition stored for each     *)
(* voyage.                                                                 *)
StoredAtStart ==
    [v \in VoyageIds |->
        [id |-> v, voyage_id |-> v, name |-> "Departure",
         tank_volumes_m3 |->
            [t \in {x \in 1..MaxTanks : ShipOfTank(x) = ShipOfVoyage(v)} |->
                TankCapacity(t) \div 2],
         pen_loadings |->
            [p \in {x \in 1..MaxPens : ShipOfPen(x) = ShipOfVoyage(v)} |->
                PenCapacity(p)],
         displacement_t |-> 250000, draft_m |-> 350, trim_m |-> -25,
         gm_m |-> Num(1, 500000000)]]

(* __init__: the Save button disabled, then _load_ships().                 *)
Constructed(ships) ==
    LET e0 == [stored |-> db_conditions,
               ships |-> ships, ship |-> 0, voyage |-> 0,
               condition |-> NoCondition, name |-> "",
               tank_table |-> <<>>, pen_table |-> <<>>,
               save_enabled |-> FALSE, voyages |-> <<>>,
               conditions |-> <<>>, cond_items |-> 0]
    IN IF ships = <<>> THEN e0 ELSE ShipChanged(e0, 0)

InitEditor ==
    /\ db_tanks = 1..MaxTanks
    /\ db_pens = 1..MaxPens
    /\ db_conditions = <<>>
    /\ \E ships \in {<<>>, [i \in 1..MaxShips |-> i]} :
          \E e \in {Constructed(ships)} :
             /\ ed_ships = e.ships
             /\ ed_ship = e.ship
             /\ ed_voyage = e.voyage
             /\ ed_condition = e.condition
             /\ ed_name = e.name
             /\ ed_tank_table = e.tank_table
             /\ ed_pen_table = e.pen_table
             /\ ed_save_enabled = e.save_enabled
             /\ ed_voyages = e.voyages
             /\ ed_conditions = e.conditions
             /\ ed_cond_items = e.cond_items
    /\ ed_outcome = "idle"
    /\ ed_events = <<>>
    /\ ed_emitted = <<>>
    \* the file service and the engine are idle
    /\ fs_cond = [id |-> PyNone]
    /\ fs_file = NoFile
    /\ fs_written = [id |-> PyNone]
    /\ fs_loaded = NotLoaded
    /\ eng_in = [km |-> NumZero]
    /\ eng_pc = "idle"
    /\ eng_stab = NoStability
    /\ eng_criteria = NoCriteria
    /\ eng_validation = NewValidation(NumZero)
    /\ eng_alarms = <<>>
    /\ eng_result = NoResult
    /\ cp_req = [ship |-> 0]
    /\ cp_pc = "idle"
    /\ cp_agg = [ok |-> FALSE]
    /\ cp_hyd = [clamped |-> FALSE]
    /\ cp_outcome = NoOutcome
    /\ rv_last = [results |-> [set |-> FALSE], ship |-> [set |-> FALSE],
                  condition |-> [set |-> FALSE], voyage |-> [set |-> FALSE]]
    /\ rv_call = [made |-> FALSE]
    /\ rv_status = ""
    /\ rv_gm = ""
    /\ rv_events = <<>>
    /\ rv_exported = <<>>
    /\ rp_tanks = <<>>
    /\ rp_pens = <<>>
    /\ rp_outcome = "idle"

(* _on_ship_changed(index), the user picking a ship in the combo box.      *)
OnShipChanged ==
    /\ \E index \in 0..(Len(ed_ships) - 1) :
          Becomes(ShipChanged(EditorState, index))
    /\ UNCHANGED <<ed_outcome, ed_events, ed_emitted, dbVars>>
    /\ UNCHANGED <<fsVars, engVars, cpVars, rvVars, rpVars>>

(* The user types into a Fill % cell.                                      *)
EditFill ==
    /\ \E row \in DOMAIN ed_tank_table, cell \in FillCells :
          ed_tank_table' = [ed_tank_table EXCEPT ![row].cell = cell]
    /\ UNCHANGED <<ed_ships, ed_ship, ed_voyage, ed_condition, ed_name,
                   ed_pen_table, ed_save_enabled, ed_outcome, ed_events,
                   ed_emitted, ed_voyages, ed_conditions, ed_cond_items,
                   dbVars>>
    /\ UNCHANGED <<fsVars, engVars, cpVars, rvVars, rpVars>>

(* The user types into a Head Count cell.                                  *)
EditHeads ==
    /\ \E row \in DOMAIN ed_pen_table, cell \in HeadCells :
          ed_pen_table' = [ed_pen_table EXCEPT ![row].cell = cell]
    /\ UNCHANGED <<ed_ships, ed_ship, ed_voyage, ed_condition, ed_name,
                   ed_tank_table, ed_save_enabled, ed_outcome, ed_events,
                   ed_emitted, ed_voyages, ed_conditions, ed_cond_items,
                   dbVars>>
    /\ UNCHANGED <<fsVars, engVars, cpVars, rvVars, rpVars>>

(* The user types the condition name.                                      *)
EditName ==
    /\ \E text \in NameTexts : ed_name' = text
    /\ UNCHANGED <<ed_ships, ed_ship, ed_voyage, ed_condition, ed_tank_table,
                   ed_pen_table, ed_save_enabled, ed_outcome, ed_events,
                   ed_emitted, ed_voyages, ed_conditions, ed_cond_items,
                   dbVars>>
    /\ UNCHANGED <<fsVars, engVars, cpVars, rvVars, rpVars>>

(* The current condition set as soon as the condition is built.            *)
ConditionSetWhenBuilt(returned, cur, condition) ==
    [set |-> TRUE, c |-> condition]

(* self._current_condition = condition comes after compute: a raise        *)
(* returns before it.                                                      *)
ConditionAfterCompute(returned, cur, condition) ==
    IF returned THEN [set |-> TRUE, c |-> condition] ELSE cur

(* _on_compute.  ed_events and ed_emitted hold what this run of the        *)
(* handler showed and emitted.                                             *)
OnCompute ==
    /\ IF ed_ship = 0
       THEN /\ ed_outcome' = "no_ship"
            /\ ed_events' = <<Event("information", "No ship")>>
            /\ ed_emitted' = <<>>
            /\ UNCHANGED ed_condition
       ELSE \E tank_volumes \in
                 {ComputeTankVolumes(ed_tank_table, TanksForShip(ed_ship))} :
            \E condition \in
                 {BuildCondition(ed_condition, ed_voyage, ed_name,
                                 tank_volumes,
                                 ComputePenLoadings(ed_pen_table))} :
               \E raised \in BOOLEAN, fig \in EditorFigures :
                  IF raised
                  THEN /\ ed_outcome' = "raised"
                       /\ ed_events' = <<Event("warning", "Validation")>>
                       /\ ed_emitted' = <<>>
                       /\ ed_condition' =
                             ConditionAfterCompute(FALSE, ed_condition,
                                                   condition)
                  ELSE \E results \in {ServiceCompute(ed_ship, condition,
                                                        tank_volumes, fig)} :
                       \E after \in {AfterCompute(results, ed_ship,
                                                  condition, ed_voyage)} :
                          /\ ed_outcome' = "returned"
                          /\ ed_condition' =
                                ConditionAfterCompute(TRUE, ed_condition,
                                                      condition)
                          /\ ed_events' = after.events
                          /\ ed_emitted' = after.emitted
    /\ UNCHANGED <<ed_ships, ed_ship, ed_voyage, ed_name, ed_tank_table,
                   ed_pen_table, ed_save_enabled, ed_voyages, ed_conditions,
                   ed_cond_items, dbVars>>
    /\ UNCHANGED <<fsVars, engVars, cpVars, rvVars, rpVars>>

(* _on_voyage_changed(index), the user picking a voyage or "-- None --".   *)
OnVoyageChanged ==
    /\ \E index \in 0..Len(ed_voyages) :
          Becomes(VoyageChanged(EditorState, index))
    /\ UNCHANGED <<ed_outcome, ed_events, ed_emitted, dbVars>>
    /\ UNCHANGED <<fsVars, engVars, cpVars, rvVars, rpVars>>

(* _on_condition_changed(index), the user picking a condition or "New".    *)
OnConditionChanged ==
    /\ ed_cond_items > 0
    /\ \E index \in 0..Len(ed_conditions) :
          Becomes(ConditionChanged(EditorState, index))
    /\ UNCHANGED <<ed_outcome, ed_events, ed_emitted, dbVars>>
    /\ UNCHANGED <<fsVars, engVars, cpVars, rvVars, rpVars>>

(* load_condition(voyage_id, condition_id), called when the user clicks    *)
(* Edit on a condition of a voyage; a voyage or condition that is not      *)
(* stored changes nothing.                                                 *)
OnLoadCondition ==
    /\ \E voyage_id \in VoyageIds, condition_id \in 1..MaxStored :
          IF condition_id \in DOMAIN db_conditions
          THEN /\ db_conditions[condition_id].voyage_id = voyage_id
               /\ Becomes(LoadCondition(EditorState, voyage_id,
                                        db_conditions[condition_id]))
          ELSE UNCHANGED <<ed_ships, ed_ship, ed_voyage, ed_condition,
                           ed_name, ed_tank_table, ed_pen_table,
                           ed_save_enabled, ed_voyages, ed_conditions,
                           ed_cond_items>>
    /\ UNCHANGED <<ed_outcome, ed_events, ed_emitted, dbVars>>
    /\ UNCHANGED <<fsVars, engVars, cpVars, rvVars, rpVars>>

(* _on_save_condition.  The stored conditions are bounded by MaxStored.    *)
OnSaveCondition ==
    /\ IF ed_voyage = 0
       THEN /\ ed_outcome' = "save_no_voyage"
            /\ ed_events' = <<Event("information", "Save")>>
            /\ UNCHANGED <<ed_ships, ed_ship, ed_voyage, ed_condition,
                           ed_name, ed_tank_table, ed_pen_table,
                           ed_save_enabled, ed_voyages, ed_conditions,
                           ed_cond_items, db_conditions>>
       ELSE IF ed_ship = 0
       THEN /\ ed_outcome' = "save_no_ship"
            /\ ed_events' = <<>>
            /\ UNCHANGED <<ed_ships, ed_ship, ed_voyage, ed_condition,
                           ed_name, ed_tank_table, ed_pen_table,
                           ed_save_enabled, ed_voyages, ed_conditions,
                           ed_cond_items, db_conditions>>
       ELSE \E tank_volumes \in
                 {SaveTankVolumes(ed_tank_table, TanksForShip(ed_ship))} :
            \E condition \in
                 {BuildCondition(ed_condition, ed_voyage, ed_name,
                                 tank_volumes,
                                 SavePenLoadings(ed_pen_table))} :
               \E raised \in BOOLEAN, fig \in EditorFigures :
                  IF raised
                  THEN /\ ed_outcome' = "save_raised"
                       /\ ed_events' = <<Event("warning", "Validation")>>
                       /\ UNCHANGED <<ed_ships, ed_ship, ed_voyage,
                                      ed_condition, ed_name, ed_tank_table,
                                      ed_pen_table, ed_save_enabled,
                                      ed_voyages, ed_conditions,
                                      ed_cond_items, db_conditions>>
                  ELSE \E results \in {ServiceCompute(ed_ship, condition,
                                                        tank_volumes, fig)} :
                       \E computed \in
                            {condition @@
                               [displacement_t |-> results.displacement_t,
                                draft_m |-> results.draft_m,
                                trim_m |-> results.trim_m,
                                gm_m |-> results.gm_m]} :
                       \E stored \in {SaveStored(db_conditions, computed)} :
                       \E saved \in {IF computed.id = 0
                                     THEN stored[Len(stored)]
                                     ELSE stored[computed.id]} :
                          /\ computed.id # 0 \/ Len(db_conditions) < MaxStored
                          /\ db_conditions' = stored
                          /\ Becomes(LoadConditions(
                                [EditorState EXCEPT
                                    !.stored = stored,
                                    !.condition = [set |-> TRUE, c |-> saved]]))
                          /\ ed_outcome' = "saved"
                          /\ ed_events' = <<Event("information", "Saved")>>
    /\ ed_emitted' = <<>>
    /\ UNCHANGED <<db_tanks, db_pens>>
    /\ UNCHANGED <<fsVars, engVars, cpVars, rvVars, rpVars>>

(* TankRepository.delete(tank_id), from the ship's tank list.              *)
DeleteTank ==
    /\ \E tank_id \in db_tanks : db_tanks' = db_tanks \ {tank_id}
    /\ UNCHANGED <<ed_ships, ed_ship, ed_voyage, ed_condition, ed_name,
                   ed_tank_table, ed_pen_table, ed_save_enabled, ed_outcome,
                   ed_events, ed_emitted, ed_voyages, ed_conditions,
                   ed_cond_items, db_pens, db_conditions>>
    /\ UNCHANGED <<fsVars, engVars, cpVars, rvVars, rpVars>>

(* LivestockPenRepository.delete(pen_id)                                   *)
DeletePen ==
    /\ \E pen_id \in db_pens : db_pens' = db_pens \ {pen_id}
    /\ UNCHANGED <<ed_ships, ed_ship, ed_voyage, ed_condition, ed_name,
                   ed_tank_table, ed_pen_table, ed_save_enabled, ed_outcome,
                   ed_events, ed_emitted, ed_voyages, ed_conditions,
                   ed_cond_items, db_tanks, db_conditions>>
    /\ UNCHANGED <<fsVars, engVars, cpVars, rvVars, rpVars>>

(* The editor over a database that holds voyages' conditions.              *)
InitStore ==
    /\ db_tanks = 1..MaxTanks
    /\ db_pens = 1..MaxPens
    /\ db_conditions = StoredAtStart
    /\ \E ships \in {<<>>, [i \in 1..MaxShips |-> i]} :
          \E e \in {Constructed(ships)} :
             /\ ed_ships = e.ships
             /\ ed_ship = e.ship
             /\ ed_voyage = e.voyage
             /\ ed_condition = e.condition
             /\ ed_name = e.name
             /\ ed_tank_table = e.tank_table
             /\ ed_pen_table = e.pen_table
             /\ ed_save_enabled = e.save_enabled
             /\ ed_voyages = e.voyages
             /\ ed_conditions = e.conditions
             /\ ed_cond_items = e.cond_items
    /\ ed_outcome = "idle"
    /\ ed_events = <<>>
    /\ ed_emitted = <<>>
    \* the file service and the engine are idle
    /\ fs_cond = [id |-> PyNone]
    /\ fs_file = NoFile
    /\ fs_written = [id |-> PyNone]
    /\ fs_loaded = NotLoaded
    /\ eng_in = [km |-> NumZero]
    /\ eng_pc = "idle"
    /\ eng_stab = NoStability
    /\ eng_criteria = NoCriteria
    /\ eng_validation = NewValidation(NumZero)
    /\ eng_alarms = <<>>
    /\ eng_result = NoResult
    /\ cp_req = [ship |-> 0]
    /\ cp_pc = "idle"
    /\ cp_agg = [ok |-> FALSE]
    /\ cp_hyd = [clamped |-> FALSE]
    /\ cp_outcome = NoOutcome
    /\ rv_last = [results |-> [set |-> FALSE], ship |-> [set |-> FALSE],
                  condition |-> [set |-> FALSE], voyage |-> [set |-> FALSE]]
    /\ rv_call = [made |-> FALSE]
    /\ rv_status = ""
    /\ rv_gm = ""
    /\ rv_events = <<>>
    /\ rv_exported = <<>>
    /\ rp_tanks = <<>>
    /\ rp_pens = <<>>
    /\ rp_outcome = "idle"

NextStore ==
    \/ OnShipChanged
    \/ OnVoyageChanged
    \/ OnConditionChanged
    \/ OnLoadCondition
    \/ OnCompute
    \/ OnSaveCondition
    \/ DeleteTank
    \/ DeletePen

(* The handlers that set the current ship, voyage and condition.           *)
NextSelect ==
    \/ OnShipChanged
    \/ OnVoyageChanged
    \/ OnConditionChanged
    \/ OnLoadCondition
    \/ OnCompute
    \/ OnSaveCondition

NextEditor == OnShipChanged \/ EditFill \/ EditHeads \/ EditName \/ OnCompute

----------------------------------------------------------------------------
(***************************************************************************)
(* The results view (ResultsView).                                         *)
(***************************************************************************)
(* f"{x:.2f}": the number rounded to hundredths, as text.                  *)
Hundredths(x) ==
    x.u * 100 + (x.n \div 10000000)
       + (IF x.n % 10000000 >= 5000000 THEN 1 ELSE 0)

TwoDigits(k) == IF k < 10 THEN "0" \o ToString(k) ELSE ToString(k)

Format2(x) ==
    LET h == Hundredths(x)
        a == IF h < 0 THEN -h ELSE h
    IN (IF h < 0 THEN "-" ELSE "") \o ToString(a \div 100) \o "."
          \o TwoDigits(a % 100)

Unset == [set |-> FALSE]
Some(v) == [set |-> TRUE, v |-> v]

NoLast == [results |-> Unset, ship |-> Unset, condition |-> Unset,
           voyage |-> Unset]

(* getattr(results, "validation", None)                                    *)
ValidationOf(results) ==
    IF "validation" \in DOMAIN results THEN Some(results.validation)
    ELSE Unset

(* Voyage(id=None, ship_id=ship.id, name="Ad-hoc", ...)                    *)
AdHocVoyage(ship) == [id |-> 0, ship_id |-> ship.id, name |-> "Ad-hoc"]

(* The four assignments that keep the first call's arguments.              *)
RememberFirst(last, results, ship, condition, voyage) ==
    IF last.results.set THEN last
    ELSE [results |-> Some(results), ship |-> Some(ship),
          condition |-> Some(condition),
          voyage |-> Some(IF voyage.set THEN voyage.v ELSE AdHocVoyage(ship))]

(* self._last_results = results ... self._last_voyage = voyage or Voyage() *)
Remember(last, results, ship, condition, voyage) ==
    [results |-> Some(results), ship |-> Some(ship),
     condition |-> Some(condition),
     voyage |-> Some(IF voyage.set THEN voyage.v ELSE AdHocVoyage(ship))]

(* The status with warnings looked at first.                               *)
StatusWarningsFirst(validation) ==
    IF ~validation.set THEN "OK"
    ELSE IF validation.v.has_warnings
    THEN "WARNING - Review before approval"
    ELSE IF validation.v.has_errors
    THEN "FAILED - Condition does not meet limits"
    ELSE "OK - Within limits"

(* The status label: errors, else warnings, else within limits; "OK" when  *)
(* the results carry no validation.                                        *)
StatusText(validation) ==
    IF ~validation.set THEN "OK"
    ELSE IF validation.v.has_errors
    THEN "FAILED - Condition does not meet limits"
    ELSE IF validation.v.has_warnings
    THEN "WARNING - Review before approval"
    ELSE "OK - Within limits"

(* gm_display = validation.gm_effective if validation else results.gm_m    *)
GmDisplay(results, validation) ==
    IF validation.set THEN validation.v.gm_effective ELSE results.gm_m

(* all([self._last_results, self._last_ship, self._last_condition,         *)
(*      self._last_voyage])                                                *)
AllSet(last) ==
    /\ last.results.set
    /\ last.ship.set
    /\ last.condition.set
    /\ last.voyage.set

(* if not path.endswith(".xlsx"): path += ".xlsx"                          *)
XlsxPath(path) == IF path = "out.xlsx" THEN path ELSE path \o ".xlsx"

(* What update_results is called with.                                     *)
RvGmValues == {Num(1, 500000000)}
RvGmEffectiveValues == {Num(-1, 746000000)}
RvResults ==
    {[gm_m |-> g] : g \in RvGmValues}
       \cup {[gm_m |-> g,
              validation |-> [has_errors |-> e, has_warnings |-> w,
                              gm_effective |-> x]] :
                g \in RvGmValues, e \in BOOLEAN, w \in BOOLEAN,
                x \in RvGmEffectiveValues}
RvShips == {[id |-> s, name |-> "Ship"] : s \in {1, 2}}
RvConditions == {[id |-> c, name |-> "Departure"] : c \in 0..1}
RvVoyages ==
    {Unset, Some([id |-> 1, ship_id |-> 1, name |-> "Voyage"])}
RvPaths == {"", "out", "out.xlsx"}

InitResults ==
    /\ rv_last = NoLast
    /\ rv_call = [made |-> FALSE]
    /\ rv_status = ""
    /\ rv_gm = ""
    /\ rv_events = <<>>
    /\ rv_exported = <<>>
    \* the file service, the engine, the editor and the repositories are idle
    /\ fs_cond = [id |-> PyNone]
    /\ fs_file = NoFile
    /\ fs_written = [id |-> PyNone]
    /\ fs_loaded = NotLoaded
    /\ eng_in = [km |-> NumZero]
    /\ eng_pc = "idle"
    /\ eng_stab = NoStability
    /\ eng_criteria = NoCriteria
    /\ eng_validation = NewValidation(NumZero)
    /\ eng_alarms = <<>>
    /\ eng_result = NoResult
    /\ ed_ships = <<>>
    /\ ed_ship = 0
    /\ ed_voyage = 0
    /\ ed_condition = NoCondition
    /\ ed_name = ""
    /\ ed_tank_table = <<>>
    /\ ed_pen_table = <<>>
    /\ ed_save_enabled = FALSE
    /\ ed_outcome = "idle"
    /\ ed_events = <<>>
    /\ ed_emitted = <<>>
    /\ ed_voyages = <<>>
    /\ ed_conditions = <<>>
    /\ ed_cond_items = 0
    /\ db_tanks = {}
    /\ db_pens = {}
    /\ db_conditions = <<>>
    /\ cp_req = [ship |-> 0]
    /\ cp_pc = "idle"
    /\ cp_agg = [ok |-> FALSE]
    /\ cp_hyd = [clamped |-> FALSE]
    /\ cp_outcome = NoOutcome
    /\ rp_tanks = <<>>
    /\ rp_pens = <<>>
    /\ rp_outcome = "idle"

(* update_results(results, ship, condition, voyage)                        *)
UpdateResults ==
    /\ \E results \in RvResults, ship \in RvShips,
          condition \in RvConditions, voyage \in RvVoyages :
          /\ rv_call' = [made |-> TRUE, results |-> results, ship |-> ship,
                         condition |-> condition, voyage |-> voyage]
          /\ rv_last' = Remember(rv_last, results, ship, condition, voyage)
          /\ rv_gm' = Format2(GmDisplay(results, ValidationOf(results)))
          /\ rv_status' = StatusText(ValidationOf(results))
    /\ UNCHANGED <<rv_events, rv_exported>>
    /\ UNCHANGED <<fsVars, engVars, edVars, cpVars, rpVars>>

(* An export handler from the file dialog on: fn is the export function,   *)
(* path the file name the handler passes to it.                            *)
ExportTo(fn, path) ==
    \E raises \in BOOLEAN :
       /\ rv_exported' = <<[fn |-> fn, path |-> path,
                            ship |-> rv_last.ship.v,
                            voyage |-> rv_last.voyage.v,
                            condition |-> rv_last.condition.v,
                            results |-> rv_last.results.v]>>
       /\ rv_events' = <<IF raises THEN Event("critical", "Export Error")
                         ELSE Event("information", "Saved")>>

(* _on_export_pdf                                                          *)
OnExportPdf ==
    /\ IF ~AllSet(rv_last)
       THEN /\ rv_events' = <<Event("information",
                                    "Compute a condition first to export.")>>
            /\ rv_exported' = <<>>
       ELSE \E path \in RvPaths :
               IF path = ""
               THEN /\ rv_events' = <<>>
                    /\ rv_exported' = <<>>
               ELSE ExportTo("export_condition_to_pdf", path)
    /\ UNCHANGED <<rv_last, rv_call, rv_status, rv_gm>>
    /\ UNCHANGED <<fsVars, engVars, edVars, cpVars, rpVars>>

(* _on_export_excel                                                        *)
OnExportExcel ==
    /\ IF ~AllSet(rv_last)
       THEN /\ rv_events' = <<Event("information",
                                    "Compute a condition first to export.")>>
            /\ rv_exported' = <<>>
       ELSE \E path \in RvPaths :
               IF path = ""
               THEN /\ rv_events' = <<>>
                    /\ rv_exported' = <<>>
               ELSE ExportTo("export_condition_to_excel", XlsxPath(path))
    /\ UNCHANGED <<rv_last, rv_call, rv_status, rv_gm>>
    /\ UNCHANGED <<fsVars, engVars, edVars, cpVars, rpVars>>

NextResults == UpdateResults \/ OnExportPdf \/ OnExportExcel

----------------------------------------------------------------------------
(***************************************************************************)
(* TankRepository and LivestockPenRepository.  A table is its rows by id;  *)
(* an Optional[int] is 0 when it is None.  The tables are bounded by       *)
(* MaxRows rows each.                                                      *)
(***************************************************************************)
MaxRows == 2

(* The Tank and LivestockPen objects handed to the repositories.           *)
RepoTanks ==
    [id : 0..(MaxRows + 1), ship_id : 0..1, name : {"FO 1", "FW 1"},
     capacity_m3 : {100}]
RepoPens ==
    [id : 0..(MaxRows + 1), ship_id : 0..1, name : {"PEN 1-1"},
     deck : {"DK1"}, capacity_head : {0, 10}]

(* autoincrement: the id a new row gets.                                   *)
NextId(rows) == Len(rows) + 1

(* TankORM(ship_id=..., name=..., capacity_m3=...)                          *)
TankRow(tank) ==
    [ship_id |-> tank.ship_id, name |-> tank.name,
     capacity_m3 |-> tank.capacity_m3]

(* LivestockPenORM(ship_id=..., name=..., deck=..., capacity_head=...)      *)
PenRow(pen) ==
    [ship_id |-> pen.ship_id, name |-> pen.name, deck |-> pen.deck,
     capacity_head |-> pen.capacity_head]

(* update's assignments: every column but ship_id.                         *)
TankRowUpdated(row, tank) ==
    [row EXCEPT !.name = tank.name, !.capacity_m3 = tank.capacity_m3]
PenRowUpdated(row, pen) ==
    [row EXCEPT !.name = pen.name, !.deck = pen.deck,
                !.capacity_head = pen.capacity_head]

(* create: if x.ship_id is None: raise ValueError                          *)
CreateRaises(x) == x.ship_id = 0

(* update that raises for a missing id only.                               *)
UpdateRaisesWithoutId(rows, x) == x.id = 0

(* update: if x.id is None: raise ValueError; obj = db.get(ORM, x.id);     *)
(* if obj is None: raise ValueError                                        *)
UpdateRaises(rows, x) == x.id = 0 \/ x.id \notin DOMAIN rows

Raised(op, x) == [op |-> op, arg |-> x, raised |-> TRUE]
Returned(op, x) == [op |-> op, arg |-> x, raised |-> FALSE]

InitRepo ==
    /\ rp_tanks = <<>>
    /\ rp_pens = <<>>
    /\ rp_outcome = [op |-> "none", raised |-> FALSE]
    \* the file service, the engine, the editor and the results view are idle
    /\ fs_cond = [id |-> PyNone]
    /\ fs_file = NoFile
    /\ fs_written = [id |-> PyNone]
    /\ fs_loaded = NotLoaded
    /\ eng_in = [km |-> NumZero]
    /\ eng_pc = "idle"
    /\ eng_stab = NoStability
    /\ eng_criteria = NoCriteria
    /\ eng_validation = NewValidation(NumZero)
    /\ eng_alarms = <<>>
    /\ eng_result = NoResult
    /\ ed_ships = <<>>
    /\ ed_ship = 0
    /\ ed_voyage = 0
    /\ ed_condition = NoCondition
    /\ ed_name = ""
    /\ ed_tank_table = <<>>
    /\ ed_pen_table = <<>>
    /\ ed_save_enabled = FALSE
    /\ ed_outcome = "idle"
    /\ ed_events = <<>>
    /\ ed_emitted = <<>>
    /\ ed_voyages = <<>>
    /\ ed_conditions = <<>>
    /\ ed_cond_items = 0
    /\ db_tanks = {}
    /\ db_pens = {}
    /\ db_conditions = <<>>
    /\ cp_req = [ship |-> 0]
    /\ cp_pc = "idle"
    /\ cp_agg = [ok |-> FALSE]
    /\ cp_hyd = [clamped |-> FALSE]
    /\ cp_outcome = NoOutcome
    /\ rv_last = NoLast
    /\ rv_call = [made |-> FALSE]
    /\ rv_status = ""
    /\ rv_gm = ""
    /\ rv_events = <<>>
    /\ rv_exported = <<>>

(* TankRepository.create(tank)                                             *)
TankCreate ==
    /\ \E tank \in RepoTanks :
          IF CreateRaises(tank)
          THEN /\ rp_outcome' = Raised("tank.create", tank)
               /\ UNCHANGED rp_tanks
          ELSE /\ Len(rp_tanks) < MaxRows
               /\ rp_tanks' = Append(rp_tanks, TankRow(tank))
               /\ rp_outcome' =
                     Returned("tank.create",
                              [tank EXCEPT !.id = NextId(rp_tanks)])
    /\ UNCHANGED rp_pens
    /\ UNCHANGED <<fsVars, engVars, edVars, cpVars, rvVars>>

(* TankRepository.update(tank)                                             *)
TankUpdate ==
    /\ \E tank \in RepoTanks :
          IF UpdateRaises(rp_tanks, tank)
          THEN /\ rp_outcome' = Raised("tank.update", tank)
               /\ UNCHANGED rp_tanks
          ELSE /\ rp_tanks' =
                     [rp_tanks EXCEPT
                        ![tank.id] = TankRowUpdated(rp_tanks[tank.id], tank)]
               /\ rp_outcome' = Returned("tank.update", tank)
    /\ UNCHANGED rp_pens
    /\ UNCHANGED <<fsVars, engVars, edVars, cpVars, rvVars>>

(* LivestockPenRepository.create(pen)                                      *)
PenCreate ==
    /\ \E pen \in RepoPens :
          IF CreateRaises(pen)
          THEN /\ rp_outcome' = Raised("pen.create", pen)
               /\ UNCHANGED rp_pens
          ELSE /\ Len(rp_pens) < MaxRows
               /\ rp_pens' = Append(rp_pens, PenRow(pen))
               /\ rp_outcome' =
                     Returned("pen.create",
                              [pen EXCEPT !.id = NextId(rp_pens)])
    /\ UNCHANGED rp_tanks
    /\ UNCHANGED <<fsVars, engVars, edVars, cpVars, rvVars>>

(* LivestockPenRepository.update(pen)                                      *)
PenUpdate ==
    /\ \E pen \in RepoPens :
          IF UpdateRaises(rp_pens, pen)
          THEN /\ rp_outcome' = Raised("pen.update", pen)
               /\ UNCHANGED rp_pens
          ELSE /\ rp_pens' =
                     [rp_pens EXCEPT
                        ![pen.id] = PenRowUpdated(rp_pens[pen.id], pen)]
               /\ rp_outcome' = Returned("pen.update", pen)
    /\ UNCHANGED rp_tanks
    /\ UNCHANGED <<fsVars, engVars, edVars, cpVars, rvVars>>

NextRepo == TankCreate \/ TankUpdate \/ PenCreate \/ PenUpdate

----------------------------------------------------------------------------
(***************************************************************************)
(* The specifications.  The parts a specification does not drive stay in a *)
(* fixed idle state.                                                       *)
(***************************************************************************)
vars == <<fsVars, engVars, edVars, cpVars, rvVars, rpVars>>

SpecFile == InitFile /\ [][NextFile]_vars

SpecEngine == InitEngine /\ [][NextEngine]_vars

SpecEditor == InitEditor /\ [][NextEditor]_vars

SpecCompute == InitCompute /\ [][NextCompute]_vars

SpecStore == InitStore /\ [][NextStore]_vars

SpecSelect == InitStore /\ [][NextSelect]_vars

SpecResults == InitResults /\ [][NextResults]_vars

SpecRepo == InitRepo /\ [][NextRepo]_vars

----------------------------------------------------------------------------
(***************************************************************************)
(* Claims about the file service (checked under SpecFile).                 *)
(***************************************************************************)
IntKeyed(d) == \A k \in DOMAIN d : k.kt = "int"

(* The last load read exactly the object that saving fs_written writes.    *)
LoadedWhatWasSaved ==
    /\ fs_loaded.valid
    /\ fs_loaded.from_save
    /\ fs_loaded.data = SaveConditionToFile(fs_written)

(* C1: for a condition whose tank_volumes_m3 and pen_loadings are keyed by *)
(* integer ids, save then load returns identical tank_volumes_m3,          *)
(* pen_loadings, name and voyage_id (same keys of the same integer type,   *)
(* same values).                                                           *)
C1_RoundTripIdentical ==
    (/\ LoadedWhatWasSaved
     /\ IntKeyed(fs_written.tank_volumes_m3)
     /\ IntKeyed(fs_written.pen_loadings))
    => /\ fs_loaded.c.tank_volumes_m3 = fs_written.tank_volumes_m3
       /\ fs_loaded.c.pen_loadings = fs_written.pen_loadings
       /\ fs_loaded.c.name = fs_written.name
       /\ fs_loaded.c.voyage_id = fs_written.voyage_id

C2_EightFields ==
    {"name", "voyage_id", "tank_volumes_m3", "pen_loadings",
     "displacement_t", "draft_m", "trim_m", "gm_m"}

C2_ScalarDefault(f) ==
    CASE f = "name" -> PyStr("Loaded Condition")
      [] f = "voyage_id" -> PyNone
      [] OTHER -> PyFloat(0)

(* C2: save writes an object with exactly the eight fields; loading that   *)
(* object restores displacement_t, draft_m, trim_m and gm_m to the saved   *)
(* values; a field present in the file is never replaced by its default;   *)
(* the loaded condition has id = None.                                     *)
C2_SavedFieldsRestored ==
    /\ (fs_file.exists /\ fs_file.intact)
          => DOMAIN fs_file.data = C2_EightFields
    /\ fs_loaded.valid => fs_loaded.c.id = PyNone
    /\ LoadedWhatWasSaved
          => /\ fs_loaded.c.displacement_t = fs_written.displacement_t
             /\ fs_loaded.c.draft_m = fs_written.draft_m
             /\ fs_loaded.c.trim_m = fs_written.trim_m
             /\ fs_loaded.c.gm_m = fs_written.gm_m
    /\ fs_loaded.valid
          => \A f \in C2_EightFields \ {"tank_volumes_m3", "pen_loadings"} :
                IF f \in DOMAIN fs_loaded.data
                THEN fs_loaded.c[f] = FromJson(fs_loaded.data[f])
                ELSE fs_loaded.c[f] = C2_ScalarDefault(f)

(* C2 witness: a condition with non-default figures and a set id was saved *)
(* and loaded back.                                                        *)
C2_Witness ==
    /\ LoadedWhatWasSaved
    /\ fs_written.displacement_t = PyFloat(5000500)
    /\ fs_written.id = PyInt(4)
    /\ fs_loaded.c.gm_m = PyFloat(1200)

----------------------------------------------------------------------------
(***************************************************************************)
(* Claims about the condition editor's Compute handler (SpecEditor).       *)
(***************************************************************************)
C3_EmitCount == Cardinality({i \in DOMAIN ed_events : ed_events[i].kind = "emit"})

C3_Complete(results) ==
    /\ DOMAIN results = {"gm_m", "criteria", "validation", "alarms", "snapshot",
                         "displacement_t", "draft_m", "trim_m"}
    /\ Len(results.criteria.lines) = 9
    /\ Len(results.alarms) = 9 + Len(results.validation.issues)

(* C3: whenever compute returns without raising, the handler emits         *)
(* condition_computed exactly once with a complete result, also when       *)
(* results.validation.has_errors is true; the failure is only reported by  *)
(* the "Computed - FAILED" message box, shown after the emit.  When        *)
(* compute raises, or no ship is selected, nothing is emitted.             *)
C3_FailingComputeIsEmitted ==
    /\ ed_outcome = "returned"
          => /\ Len(ed_emitted) = 1
             /\ C3_EmitCount = 1
             /\ Len(ed_events) = 2
             /\ ed_events[1] = Event("emit", "condition_computed")
             /\ C3_Complete(ed_emitted[1].results)
             /\ ed_events[2] =
                   IF \E i \in DOMAIN ed_emitted[1].results.validation.issues :
                         ed_emitted[1].results.validation.issues[i].severity
                            = "ERROR"
                   THEN Event("warning", "Computed - FAILED")
                   ELSE Event("information", "Computed")
    /\ ed_outcome \in {"raised", "no_ship"}
          => /\ ed_emitted = <<>>
             /\ C3_EmitCount = 0

(* C3 witness: a computation whose criteria fail was emitted and then      *)
(* reported as FAILED.                                                     *)
C3_Witness ==
    /\ ed_outcome = "returned"
    /\ Len(ed_emitted) = 1
    /\ ed_emitted[1].results.criteria.failed > 0
    /\ HasErrors(ed_emitted[1].results.validation)
    /\ ed_events[2] = Event("warning", "Computed - FAILED")

----------------------------------------------------------------------------
(***************************************************************************)
(* Claims about the engine (SpecEngine).                                   *)
(***************************************************************************)
CriteriaEvaluated == eng_pc \notin {"stability", "criteria"}
ValidationBuilt == eng_pc \in {"alarms", "assemble", "done"}
AlarmsBuilt == eng_pc \in {"assemble", "done"}

C_Lines == eng_criteria.lines

C5_TieCountsAsPass ==
    \A r \in DOMAIN C_Lines :
        NumLe(NumAbs(NumSub(C_Lines[r].value, C_Lines[r].limit)), Num(0, 1))
           => C_Lines[r].result = "PASS"

(* C5 witness: a ">=" rule attained 1e-9 below its limit and a "<=" rule   *)
(* attained 1e-9 above its limit, in evaluated reports.                    *)
C5_Witness ==
    /\ CriteriaEvaluated
    /\ C_Lines[1].value = NumSub(C_Lines[1].limit, Num(0, 1))
    /\ C_Lines[2].value = NumAdd(C_Lines[2].limit, Num(0, 1))
    /\ C_Lines[1].result = "PASS"
    /\ C_Lines[2].result = "PASS"

C6_SlackCount ==
    Cardinality({t \in DOMAIN eng_in.tanks :
                    0 < eng_in.volumes[t] /\ eng_in.volumes[t] < eng_in.tanks[t]})

(* C6: a tank at exactly 0% or 100% contributes no free-surface penalty    *)
(* and every tank strictly between contributes exactly 0.5, whatever its   *)
(* fill fraction: GM_effective = GM_raw - 0.5 * (number of slack tanks).   *)
C6_FreeSurfaceBoundary ==
    eng_pc # "stability"
       => /\ eng_stab.gm_m = NumSub(eng_in.km, eng_in.kg)
          /\ eng_stab.gm_effective =
                NumSub(eng_stab.gm_m,
                       NumTimes(C6_SlackCount, Num(0, 500000000)))
          /\ (\A t \in DOMAIN eng_in.tanks :
                 eng_in.volumes[t] \in {0, eng_in.tanks[t]})
                => eng_stab.gm_effective = eng_stab.gm_m

(* C6 witness: one tank full, one tank filled to 25%: exactly one penalty. *)
C6_Witness ==
    /\ eng_pc = "done"
    /\ eng_in.volumes[1] = eng_in.tanks[1]
    /\ \E t \in DOMAIN eng_in.tanks :
          4 * eng_in.volumes[t] = eng_in.tanks[t]
    /\ eng_stab.gm_effective = NumSub(eng_stab.gm_m, Num(0, 500000000))

C7_PensLoaded == \E p \in DOMAIN eng_in.pen_loadings : eng_in.pen_loadings[p] # 0

C7_LimitChosen ==
    C_Lines[1].limit =
        IF C7_PensLoaded THEN Num(0, 200000000) ELSE Num(0, 150000000)

C8_ErrorIssueFor(v, line) ==
    \E i \in DOMAIN v.issues :
        /\ v.issues[i].severity = "ERROR"
        /\ v.issues[i].ref = line.code
        /\ v.issues[i].message = line.name

(* C8: every criterion line with result FAIL surfaces as a validation      *)
(* issue of severity ERROR, so criteria.failed > 0 implies                 *)
(* validation.has_errors; the computation is not aborted: every stage      *)
(* before the last can still run, and the last one returns the complete    *)
(* result.                                                                 *)
C8_FailedCriterionIsError ==
    /\ ValidationBuilt
          => /\ \A r \in DOMAIN C_Lines :
                   C_Lines[r].result = "FAIL"
                      => C8_ErrorIssueFor(eng_validation, C_Lines[r])
             /\ eng_criteria.failed > 0 => HasErrors(eng_validation)
    /\ eng_pc = "done"
          => /\ eng_result.complete
             /\ eng_result.r.criteria = eng_criteria
             /\ eng_result.r.criteria.failed > 0
                   => HasErrors(eng_result.r.validation)
    /\ (ValidationBuilt /\ eng_pc # "done" /\ eng_criteria.failed > 0)
          => ENABLED (DoAlarms \/ DoAssemble)

(* C8 witness: a computation with two or more failed criteria has run to   *)
(* its end and returned the result.                                        *)
C8_Witness ==
    /\ eng_pc = "done"
    /\ eng_result.complete
    /\ eng_result.r.criteria.failed >= 2
    /\ HasErrors(eng_result.r.validation)

C9_Any(v, sev) == \E i \in 1..Len(v.issues) : v.issues[i].severity = sev

C10_RuleOrder ==
    <<"Minimum GM", "Roll period", "Freeboard", "Trim", "Draft",
      "Strength (bending)", "Propeller immersion", "Visibility", "Air draft">>

(* C10: build_alarm_rows returns one row per criterion line, in the fixed  *)
(* rule-set order, each with status equal to its line's result, followed   *)
(* by one row per validation issue, in the order the issues were raised,   *)
(* each with status WARN.                                                  *)
C10_AlarmRowsOrdered ==
    AlarmsBuilt
       => /\ Len(eng_alarms) = Len(C_Lines) + Len(eng_validation.issues)
          /\ Len(C_Lines) = Len(C10_RuleOrder)
          /\ \A i \in 1..Len(C_Lines) :
                /\ eng_alarms[i].description = C10_RuleOrder[i]
                /\ C_Lines[i].name = C10_RuleOrder[i]
                /\ eng_alarms[i].status = C_Lines[i].result
                /\ eng_alarms[i].status \in {"PASS", "FAIL"}
          /\ \A j \in 1..Len(eng_validation.issues) :
                /\ eng_alarms[Len(C_Lines) + j].status = "WARN"
                /\ eng_alarms[Len(C_Lines) + j].description =
                      eng_validation.issues[j].message
          /\ \A k \in 1..Len(eng_alarms) : eng_alarms[k].no = k

(* C10 witness: rows built for a report with a FAIL line and for issues of *)
(* all three severities.                                                   *)
C10_Witness ==
    /\ AlarmsBuilt
    /\ \E i \in 1..Len(C_Lines) : eng_alarms[i].status = "FAIL"
    /\ \E i \in 1..Len(C_Lines) : eng_alarms[i].status = "PASS"
    /\ \A sev \in {"ERROR", "WARNING", "INFO"} :
          \E j \in DOMAIN eng_validation.issues :
             eng_validation.issues[j].severity = sev


(* The text a count is printed as, read back as the count.                 *)
C11_Counts == [k \in 0..9 |-> ToString(k)]

RECURSIVE C11_CountFrom(_, _, _)
C11_CountFrom(lines, i, res) ==
    IF i > Len(lines) THEN 0
    ELSE (IF lines[i].result = res THEN 1 ELSE 0) + C11_CountFrom(lines, i + 1, res)

(* C11: in every CriteriaReport, passed is the number of PASS lines and    *)
(* failed the number of FAIL lines, so passed + failed is the number of    *)
(* lines; and snapshot.criteria_summary is "{passed} passed, {failed}      *)
(* failed" built from those two counts, the same text the results view    *)
(* prints.                                                                 *)
C11_CountsAndSummary ==
    /\ CriteriaEvaluated
          => /\ eng_criteria.passed = C11_CountFrom(C_Lines, 1, "PASS")
             /\ eng_criteria.failed = C11_CountFrom(C_Lines, 1, "FAIL")
             /\ eng_criteria.passed + eng_criteria.failed = Len(C_Lines)
    /\ eng_result.complete
          => /\ eng_result.r.criteria = eng_criteria
             /\ eng_result.r.snapshot.criteria_summary =
                   C11_Counts[eng_criteria.passed] \o " passed, "
                      \o C11_Counts[eng_criteria.failed] \o " failed"
             /\ CritSum(eng_result.r.criteria) =
                   eng_result.r.snapshot.criteria_summary

(* C11 witness: a returned result with both passed and failed lines, in    *)
(* different numbers.                                                      *)
C11_Witness ==
    /\ eng_result.complete
    /\ eng_result.r.criteria.passed = 6
    /\ eng_result.r.criteria.failed = 3
    /\ eng_result.r.snapshot.criteria_summary = "6 passed, 3 failed"


----------------------------------------------------------------------------
(***************************************************************************)
(* Claims about the whole computation (SpecCompute).                       *)
(***************************************************************************)
Aggregated == cp_pc \notin {"idle", "aggregate"}
Interpolated == cp_pc \in {"calculate", "done"}

RECURSIVE C_Total(_, _)
C_Total(f, ids) ==
    IF ids = {} THEN 0
    ELSE LET x == CHOOSE y \in ids : TRUE IN f[x] + C_Total(f, ids \ {x})

(* The displacement the request resolves to.                               *)
C_Displacement ==
    cp_req.ship.lightship_kg
       + C_Total([t \in DOMAIN cp_req.tanks |-> cp_req.volumes[t] * 1025],
                 DOMAIN cp_req.tanks)
       + C_Total([p \in DOMAIN cp_req.pens |-> cp_req.pen_loadings[p] * 500],
                 DOMAIN cp_req.pens)

C_IssuesAbout(v, sev, msg, ref) ==
    Cardinality({i \in DOMAIN v.issues :
                    v.issues[i] = Issue(sev, msg, ref)})

C12_EmptyShip ==
    /\ \A t \in DOMAIN cp_req.volumes : cp_req.volumes[t] = 0
    /\ \A p \in DOMAIN cp_req.pen_loadings : cp_req.pen_loadings[p] = 0

(* C12: for an empty ship (every tank volume 0, every head count 0)        *)
(* aggregate returns the lightship weight as displacement with the         *)
(* lightship centre of gravity, no tank counts as slack, and GM_effective  *)
(* equals GM = KM - KG with zero free-surface correction.                  *)
C12_EmptyShipIsLightship ==
    /\ (C12_EmptyShip /\ Aggregated /\ cp_agg.ok)
          => /\ cp_agg.displacement = cp_req.ship.lightship_kg
             /\ cp_agg.cog = cp_req.ship.cog
    /\ (C12_EmptyShip /\ cp_outcome.returned)
          => /\ cp_outcome.r.displacement = cp_req.ship.lightship_kg
             /\ cp_outcome.r.kg = cp_req.ship.cog.v
             /\ \A i \in DOMAIN cp_outcome.r.validation.issues :
                   cp_outcome.r.validation.issues[i].message # "slack tank"
             /\ cp_outcome.r.gm_m =
                   NumSub(CmToNum(cp_outcome.r.km), CmToNum(cp_req.ship.cog.v))
             /\ cp_outcome.r.validation.gm_effective = cp_outcome.r.gm_m

(* C12 witness: an empty ship of 250 t computed to the end, GM = 1.0 m.    *)
C12_Witness ==
    /\ C12_EmptyShip
    /\ cp_outcome.returned
    /\ cp_outcome.r.displacement = 250000
    /\ cp_outcome.r.km = 725
    /\ cp_outcome.r.gm_m = Num(1, 0)
    /\ cp_outcome.r.validation.gm_effective = Num(1, 0)

(* C13: when the total displacement resolves to zero or a negative value,  *)
(* aggregate fails with InvalidInputError, the pipeline stops there and no *)
(* ConditionResults, not even a partial one, is returned.                  *)
C13_NoDisplacementAborts ==
    /\ (Aggregated /\ C_Displacement <= 0)
          => /\ ~cp_agg.ok
             /\ cp_agg.error = "InvalidInputError"
             /\ cp_pc = "aborted"
    /\ cp_pc = "aborted"
          => /\ C_Displacement <= 0
             /\ cp_outcome = [returned |-> FALSE, raised |-> TRUE,
                              error |-> "InvalidInputError"]
             /\ cp_hyd = [clamped |-> FALSE]
             /\ ~ENABLED NextCompute
    /\ cp_outcome.returned => C_Displacement > 0

(* C13 witness: a computation aborted on a displacement of exactly zero.   *)
C13_Witness ==
    /\ cp_pc = "aborted"
    /\ C_Displacement = 0
    /\ cp_outcome.raised

(* C14: a pen whose head count is at most its capacity raises no capacity  *)
(* issue; each pen whose head count exceeds its capacity raises exactly    *)
(* one WARNING issue referencing that pen; the over-capacity load is still *)
(* accepted and its mass, heads * mass_per_head, is in the displacement.   *)
C14_OverCapacityWarnsOnce ==
    cp_outcome.returned
       => /\ \A p \in DOMAIN cp_req.pens :
                /\ C_IssuesAbout(cp_outcome.r.validation, "WARNING",
                                 "head count exceeds pen capacity", p)
                      = IF cp_req.pen_loadings[p] > cp_req.pens[p] THEN 1 ELSE 0
                /\ \A i \in DOMAIN cp_outcome.r.validation.issues :
                      (/\ cp_outcome.r.validation.issues[i].ref = p
                       /\ cp_outcome.r.validation.issues[i].message
                             = "head count exceeds pen capacity")
                         => /\ cp_req.pen_loadings[p] > cp_req.pens[p]
                            /\ cp_outcome.r.validation.issues[i].severity
                                  = "WARNING"
          /\ cp_outcome.r.displacement = C_Displacement

(* C14 witness: a pen of capacity 10 loaded with 11 head, computed to the  *)
(* end; its 5500 kg are in the displacement.                               *)
C14_Witness ==
    /\ cp_outcome.returned
    /\ cp_req.pen_loadings[1] = 11
    /\ cp_req.pens[1] = 10
    /\ \A t \in DOMAIN cp_req.volumes : cp_req.volumes[t] = 0
    /\ cp_outcome.r.displacement = cp_req.ship.lightship_kg + 5500
    /\ HasWarnings(cp_outcome.r.validation)

C15_First == cp_req.ship.table[1]
C15_Last == cp_req.ship.table[Len(cp_req.ship.table)]

C15_RangeWarnings(v) ==
    Cardinality({i \in DOMAIN v.issues :
                    /\ v.issues[i].severity = "WARNING"
                    /\ v.issues[i].message = "outside hydrostatic table range"})

(* C15: for a displacement below the first or above the last row of the    *)
(* hydrostatic table, interpolate returns the values of the nearest        *)
(* boundary row, the result is still returned and a validation WARNING is  *)
(* raised; inside the table's domain no such warning is raised.            *)
C15_ClampedAndFlagged ==
    /\ Interpolated
          => /\ cp_agg.displacement < C15_First.displacement
                   => /\ cp_hyd.draft = C15_First.draft
                      /\ cp_hyd.km = C15_First.km
                      /\ cp_hyd.clamped
             /\ cp_agg.displacement > C15_Last.displacement
                   => /\ cp_hyd.draft = C15_Last.draft
                      /\ cp_hyd.km = C15_Last.km
                      /\ cp_hyd.clamped
             /\ (/\ C15_First.displacement <= cp_agg.displacement
                 /\ cp_agg.displacement <= C15_Last.displacement)
                   => ~cp_hyd.clamped
    /\ cp_pc = "done"
          => /\ cp_outcome.returned
             /\ cp_outcome.r.draft = cp_hyd.draft
             /\ cp_outcome.r.km = cp_hyd.km
             /\ C15_RangeWarnings(cp_outcome.r.validation) =
                   IF \/ cp_agg.displacement < C15_First.displacement
                      \/ cp_agg.displacement > C15_Last.displacement
                   THEN 1 ELSE 0

(* C15 witness: a displacement of 48.75 t, below the first row (100 t),    *)
(* was computed to the end with the first row's draft and the warning.     *)
C15_Witness ==
    /\ cp_pc = "done"
    /\ cp_agg.displacement = 48750
    /\ cp_outcome.returned
    /\ cp_outcome.r.draft = 200
    /\ HasWarnings(cp_outcome.r.validation)


----------------------------------------------------------------------------
(***************************************************************************)
(* Claims about the editor over stored voyages and conditions (SpecStore). *)
(***************************************************************************)
C17_Resolved(c) ==
    /\ DOMAIN c.tank_volumes_m3 \subseteq DOMAIN TanksForShip(ed_ship)
    /\ DOMAIN c.pen_loadings \subseteq DOMAIN PensForShip(ed_ship)

(* C17: every tank-id key and every pen-id key of the condition that       *)
(* _on_compute passes to compute, or that _on_save_condition persists,     *)
(* resolves to a tank or pen the selected ship has when the handler runs.  *)
C17_KeysResolveToShip ==
    [][/\ (OnCompute /\ ed_outcome' = "returned")
             => C17_Resolved(ed_emitted'[1].condition)
       /\ (OnSaveCondition /\ ed_outcome' = "saved")
             => \A i \in DOMAIN db_conditions' :
                   (\/ i \notin DOMAIN db_conditions
                    \/ db_conditions'[i] # db_conditions[i])
                      => C17_Resolved(db_conditions'[i])]_vars

C18_Loads(voyage_id, condition_id) ==
    /\ db_conditions[condition_id].voyage_id = voyage_id
    /\ OnLoadCondition
    /\ ed_name' = db_conditions[condition_id].name
    /\ ed_tank_table' =
          PopulateTanksTable(TanksForShip(ShipOfVoyage(voyage_id)),
                             db_conditions[condition_id].tank_volumes_m3)

(* C18: after load_condition(voyage_id, condition_id) for a voyage and a   *)
(* condition that exist, the current ship is the voyage's ship, the        *)
(* current voyage that voyage and the current condition that condition     *)
(* (so a following Save is accepted and writes to its id).                 *)
C18_LoadedConditionIsCurrent ==
    [][\A voyage_id \in VoyageIds, condition_id \in DOMAIN db_conditions :
          C18_Loads(voyage_id, condition_id)
             => /\ ed_ship' = ShipOfVoyage(voyage_id)
                /\ ed_voyage' = voyage_id
                /\ ed_condition' =
                      [set |-> TRUE, c |-> db_conditions[condition_id]]]_vars

(* C19: after _on_save_condition succeeds, the current condition is the    *)
(* condition just saved, carrying its persisted id (so a second Save       *)
(* updates the same stored condition).                                     *)
C19_SavedConditionIsCurrent ==
    [][(OnSaveCondition /\ ed_outcome' = "saved")
          => /\ ed_condition'.set
             /\ ed_condition'.c.id \in DOMAIN db_conditions'
             /\ db_conditions'[ed_condition'.c.id] = ed_condition'.c]_vars

(* C20: in every state the editor reaches, the Save Condition button is    *)
(* enabled if and only if a current voyage is set.                         *)
C20_SaveEnabledIffVoyage == ed_save_enabled <=> (ed_voyage # 0)


----------------------------------------------------------------------------
(***************************************************************************)
(* Claims about the maps the editor builds from its tables (SpecEditor).   *)
(***************************************************************************)
C_OddCell(table) ==
    \E i \in DOMAIN table :
        \/ ~table[i].cell.num
        \/ IsNan(table[i].cell)
        \/ table[i].cell.val < 0

(* C21: for the same tank table, pen table and ship, _on_compute and       *)
(* _on_save_condition build the same tank_volumes_m3 map and the same      *)
(* pen_loadings map, whatever the cell texts are.                          *)
C21_ComputeAndSaveBuildAlike ==
    ed_ship # 0 =>
       /\ SaveTankVolumes(ed_tank_table, TanksForShip(ed_ship))
             = ComputeTankVolumes(ed_tank_table, TanksForShip(ed_ship))
       /\ SavePenLoadings(ed_pen_table) = ComputePenLoadings(ed_pen_table)

(* C21 witness: compute has built its maps from tables that hold a         *)
(* negative or unparseable fill and a negative or unparseable head count,  *)
(* next to a pen that is kept.                                             *)
C21_Witness ==
    /\ ed_outcome = "returned"
    /\ C_OddCell(ed_tank_table)
    /\ C_OddCell(ed_pen_table)
    /\ ed_emitted[1].condition.tank_volumes_m3
          = SaveTankVolumes(ed_tank_table, TanksForShip(ed_ship))
    /\ ed_emitted[1].condition.pen_loadings = SavePenLoadings(ed_pen_table)

C22_Expected(capacity, cell) ==
    IF ~cell.num THEN {0}
    ELSE IF IsNan(cell) THEN 0..capacity
    ELSE IF cell.val <= 0 THEN {0}
    ELSE IF cell.val >= 100 THEN {capacity}
    ELSE {(capacity * cell.val) \div 100}

C22_Within(volumes) ==
    \A t \in DOMAIN volumes :
        /\ 0 <= volumes[t]
        /\ volumes[t] <= TankCapacity(t)
        /\ \A i \in DOMAIN ed_tank_table :
              ed_tank_table[i].id = t
                 => volumes[t] \in C22_Expected(TankCapacity(t),
                                                ed_tank_table[i].cell)

C23_NoSignalWithoutResults ==
    [][\/ /\ ed_emitted' # <<>> => ed_outcome' = "returned"
          /\ ed_outcome' \in {"no_ship", "raised"} =>
                /\ ed_emitted' = <<>>
                /\ \A i \in DOMAIN ed_events' : ed_events'[i].kind # "emit"
                /\ UNCHANGED <<ed_condition, ed_voyage, ed_ship>>
       \/ ~OnCompute]_vars

(* C23 witness: compute raised for a form that differs from the current    *)
(* condition, which an earlier compute had set.                            *)
C23_Witness ==
    /\ ed_outcome = "raised"
    /\ ed_emitted = <<>>
    /\ ed_condition.set
    /\ ed_condition.c.tank_volumes_m3
          # ComputeTankVolumes(ed_tank_table, TanksForShip(ed_ship))


----------------------------------------------------------------------------
(***************************************************************************)
(* Claims about the results view (SpecResults).                            *)
(***************************************************************************)
C24_FromLatestCall(x) ==
    /\ rv_call.made
    /\ x.results = rv_call.results
    /\ x.ship = rv_call.ship
    /\ x.condition = rv_call.condition
    /\ x.voyage = IF rv_call.voyage.set THEN rv_call.voyage.v
                  ELSE AdHocVoyage(rv_call.ship)

(* C24: Export PDF and Export Excel call the export functions only after   *)
(* update_results has been called; before that they only show "Compute a  *)
(* condition first to export."; and an export uses the results, ship,      *)
(* condition and voyage of the most recent update_results call (the        *)
(* Ad-hoc voyage of that call's ship when it passed no voyage).            *)
C24_ExportUsesLatestUpdate ==
    [][\/ /\ \A i \in DOMAIN rv_exported' :
                C24_FromLatestCall(rv_exported'[i])
          /\ ~rv_call.made =>
                /\ rv_exported' = <<>>
                /\ rv_events' =
                      <<Event("information",
                              "Compute a condition first to export.")>>
       \/ ~(OnExportPdf \/ OnExportExcel)]_vars

(* C24 witness: an Excel export was made after an update that passed no    *)
(* voyage, with the arguments of that update.                              *)
C24_Witness ==
    /\ rv_call.made
    /\ ~rv_call.voyage.set
    /\ Len(rv_exported) = 1
    /\ rv_exported[1].fn = "export_condition_to_excel"
    /\ C24_FromLatestCall(rv_exported[1])
    /\ rv_events = <<Event("information", "Saved")>>

(* C25: with a validation block the status is FAILED exactly when          *)
(* has_errors, WARNING exactly when there are warnings and no errors, and  *)
(* "OK - Within limits" exactly when there are neither; the GM shown is    *)
(* validation.gm_effective when there is a validation block and            *)
(* results.gm_m only when there is none.                                   *)
C25_StatusAndGmFollowValidation ==
    rv_call.made =>
       IF "validation" \in DOMAIN rv_call.results
       THEN LET v == rv_call.results.validation
                e == v.has_errors
                w == v.has_warnings
            IN /\ rv_status = "FAILED - Condition does not meet limits" <=> e
               /\ rv_status = "WARNING - Review before approval"
                     <=> (~e /\ w)
               /\ rv_status = "OK - Within limits" <=> (~e /\ ~w)
               /\ rv_gm = Format2(v.gm_effective)
       ELSE rv_gm = Format2(rv_call.results.gm_m)

(* C25 witness: results with an error and a warning are shown as FAILED,   *)
(* with the effective GM -0.254 shown as -0.25 and not the GM of 1.5.      *)
C25_Witness ==
    /\ rv_call.made
    /\ "validation" \in DOMAIN rv_call.results
    /\ rv_call.results.validation.has_errors
    /\ rv_call.results.validation.has_warnings
    /\ rv_status = "FAILED - Condition does not meet limits"
    /\ rv_gm = "-0.25"
    /\ Format2(rv_call.results.gm_m) = "1.50"


----------------------------------------------------------------------------
(***************************************************************************)
(* Claims about the editor's selection (SpecSelect).                       *)
(***************************************************************************)
C26_SelectionConsistent ==
    /\ ed_voyage # 0 => ShipOfVoyage(ed_voyage) = ed_ship
    /\ (ed_condition.set /\ ed_condition.c.id # 0)
          => ed_condition.c.voyage_id = ed_voyage

----------------------------------------------------------------------------
(***************************************************************************)
(* Claims about the repositories (SpecRepo).                               *)
(***************************************************************************)
C27_Rows(op) == IF op \in {"tank.create", "tank.update"} THEN rp_tanks
                ELSE rp_pens

C27_Invalid(op, x) ==
    \/ op \in {"tank.create", "pen.create"} /\ x.ship_id = 0
    \/ op \in {"tank.update", "pen.update"} /\ x.id = 0
    \/ op \in {"tank.update", "pen.update"}
          /\ \A i \in DOMAIN C27_Rows(op) : i # x.id

(* C27: in both repositories create with ship_id None, update with id     *)
(* None and update with an id that is not stored raise ValueError and      *)
(* leave the stored rows and their fields unchanged.                       *)
C27_InvalidCallsRaiseAndKeepRows ==
    [][C27_Invalid(rp_outcome'.op, rp_outcome'.arg)
          => /\ rp_outcome'.raised
             /\ UNCHANGED <<rp_tanks, rp_pens>>]_vars

(* C27 witness: with a tank and a pen stored, an update of a pen under an  *)
(* id that is not stored has raised.                                       *)
C27_Witness ==
    /\ Len(rp_tanks) > 0
    /\ Len(rp_pens) > 0
    /\ rp_outcome.op = "pen.update"
    /\ rp_outcome.raised
    /\ rp_outcome.arg.id > Len(rp_pens)

====
